---- MODULE Spec2Model ----
(***************************************************************************)
(* Purchase order optimizer of deccalum/online_shop (src/python/spcplan.py) *)
(* as a state machine: one PurchaseOrderOptimizer instance, its optimize()  *)
(* calls phase by phase, and the external MILP solver as a nondeterministic *)
(* capability that honours its status contract.                             *)
(*                                                                          *)
(* Numbers.  The program computes in floating point; the model computes in  *)
(* exact fixed point.  Prices, budgets and demands are integers.  Factors   *)
(* (trend_factor, demand_buffer, demand_multiplier) are pairs <<num, den>>. *)
(* Seasonal factors are in twentieths.  Weights stay in grams and volumes   *)
(* in cm3, so a kg quantity is held times GramsPerKg and an m3 quantity     *)
(* times Cm3PerM3; money that depends on them (objective, net profit) is    *)
(* held times Cm3PerM3, and customs_duty_rate is held times Cm3PerM3 too.   *)
(***************************************************************************)
EXTENDS Integers, Sequences, FiniteSets, TLC

VARIABLES pc, config, products, solver, variables, result, raised, escaped, elapsed,
          exact, readback, stale, range, flt, tier, gen, fc, sel

\* The optimizer (spcplan.py), the candidate generation (productcreator.py)
\* and the result reducer (batch_optimizer.py).
optimizerVars ==
  <<pc, config, products, solver, variables, result, raised, escaped, elapsed, exact,
    readback, stale>>

candidateVars == <<range, flt, tier, gen, fc, sel>>

vars == <<optimizerVars, candidateVars>>

(***************************************************************************)
(* Bounds of the model.                                                    *)
(***************************************************************************)
MaxProducts == 2
MaxMonths == 2
MaxSolveTicks == 2
MaxNoisy == 1
MaxRangeLen == 4

(***************************************************************************)
(* Unit conversions written as literals in the source.                     *)
(***************************************************************************)
GramsPerKg == 1000
Cm3PerM3 == 1000000

(***************************************************************************)
(* Arithmetic helpers.                                                     *)
(***************************************************************************)
RECURSIVE SumSeq(_)
SumSeq(s) == IF s = <<>> THEN 0 ELSE Head(s) + SumSeq(Tail(s))

RECURSIVE Pow(_, _)
Pow(b, e) == IF e <= 0 THEN 1 ELSE b * Pow(b, e - 1)

\* Python's int() of the quotient a/b (b > 0): truncation toward zero.
PyInt(a, b) == IF a >= 0 THEN a \div b ELSE -((-a) \div b)

(***************************************************************************)
(* SeasonalFactors (defaults, in twentieths) and DemandForecast.           *)
(***************************************************************************)
SeasonalDen == 20
DefaultSeasonalFactors ==
  [m \in 1..12 |->
     CASE m = 1 -> 16 [] m = 2 -> 14 [] m = 3 -> 18 [] m = 4 -> 19
       [] m = 5 -> 20 [] m = 6 -> 20 [] m = 7 -> 21 [] m = 8 -> 22
       [] m = 9 -> 23 [] m = 10 -> 26 [] m = 11 -> 30 [] m = 12 -> 32]

\* A lookup that ignores the mapping: every month has factor 1.0.
SeasonalGet_Flat(factors, month) == SeasonalDen

\* A lookup by month of the year: month 13 reads the factor of month 1.
SeasonalGet_Wrap(factors, month) ==
  LET m == ((month - 1) % 12) + 1
  IN  IF m \in DOMAIN factors THEN factors[m] ELSE SeasonalDen

\* self.factors.get(month, 1.0)
SeasonalGet(factors, month) ==
  IF month \in DOMAIN factors THEN factors[month] ELSE SeasonalDen

\* forecast_month as an exact fraction <<num, den>>.
ForecastMonth(df, month) ==
  << df.base_demand * SeasonalGet(df.seasonal_factors, month)
       * Pow(df.trend_factor[1], month - 1),
     SeasonalDen * Pow(df.trend_factor[2], month - 1) >>

(***************************************************************************)
(* Inputs: products as the callers build them, and configurations.         *)
(***************************************************************************)
CallerForecast(base) ==
  [base_demand |-> base, seasonal_factors |-> DefaultSeasonalFactors,
   trend_factor |-> <<51, 50>>, demand_buffer |-> <<3, 2>>]

Catalog ==
  { [name |-> "gadget", wholesale_price |-> 10, retail_price |-> 20,
     size_cm3 |-> 1000, weight_g |-> 500, demand_forecast |-> CallerForecast(2)],
    [name |-> "crate", wholesale_price |-> 15, retail_price |-> 90,
     size_cm3 |-> 1000000, weight_g |-> 1000, demand_forecast |-> CallerForecast(2)],
    [name |-> "brick", wholesale_price |-> 10, retail_price |-> 11,
     size_cm3 |-> 1000, weight_g |-> 1000, demand_forecast |-> CallerForecast(1)] }

\* id=f"P{idx:06d}" with idx the 1-based position in the list.
ProductId(idx) == <<"P", idx>>

WithId(attrs, idx) ==
  [id |-> ProductId(idx), name |-> attrs.name,
   wholesale_price |-> attrs.wholesale_price, retail_price |-> attrs.retail_price,
   size_cm3 |-> attrs.size_cm3, weight_g |-> attrs.weight_g,
   demand_forecast |-> attrs.demand_forecast]

\* The lists optimize() is called with: distinct catalog entries, in any order.
ProductLists ==
  UNION { { [i \in 1..n |-> WithId(f[i], i)] :
              f \in {g \in [1..n -> Catalog] : \A i, j \in 1..n : g[i] = g[j] => i = j} }
          : n \in 1..MaxProducts }

ShippingOptions ==
  { [cost_per_kg |-> 2, cost_per_m3 |-> 50, max_weight_kg |-> w, max_volume_m3 |-> v,
     crosses_border |-> b, customs_duty_rate |-> 100000]
    : w \in {1, 1000}, v \in {1}, b \in BOOLEAN }

\* planning_months is not validated anywhere: 0 is a horizon a caller or a
\* configuration file can give.
Configs ==
  { [planning_months |-> m, budget_per_month |-> bud, warehouse_capacity_m3 |-> cap,
     shipping |-> sh, solver_time_limit_seconds |-> 1, solver_type |-> st,
     demand_multiplier |-> <<1, 1>>]
    : m \in 0..MaxMonths, bud \in {-5, 0, 20}, cap \in {1, 40},
      sh \in ShippingOptions, st \in {"SCIP", "XPRESS"} }

Months == 1..config.planning_months

Margin(p) == p.retail_price - p.wholesale_price

\* A function of the candidate generation that is not being called.
NotCalled == [pc |-> "idle"]

(***************************************************************************)
(* The solver object.                                                      *)
(***************************************************************************)
None == [kind |-> "None"]
NoLimit == -1
NoResult == [status |-> "NONE"]

AvailableSolvers == {"SCIP", "CBC", "GLOP"}

CreateSolver(solver_type) ==
  IF solver_type \in AvailableSolvers
  THEN [kind |-> "Solver", time_limit |-> NoLimit, vars |-> <<>>,
        objective |-> <<>>, constraints |-> <<>>,
        status |-> "NOT_SOLVED", solution |-> <<>>]
  ELSE None

Init ==
  /\ pc = "idle"
  /\ config \in Configs
  /\ products = <<>>
  /\ solver = None
  /\ variables = <<>>
  /\ result = NoResult
  /\ raised = "none"
  /\ escaped = FALSE
  /\ elapsed = 0
  /\ exact = TRUE
  /\ readback = <<>>
  /\ stale = {}
  /\ range = NotCalled
  /\ flt = NotCalled
  /\ tier = NotCalled
  /\ gen = NotCalled
  /\ fc = NotCalled
  /\ sel = NotCalled

\* The keys self.variables still holds from an earlier call that the list of
\* this call does not have.
StaleKeys(ps) == (DOMAIN variables) \ {ps[k].id : k \in 1..Len(ps)}

\* optimize(), lines 121-124: create the solver, or return ERROR.
Optimize_NoCheck(ps) ==
  /\ pc = "idle"
  /\ products' = ps
  /\ solver' = CreateSolver(config.solver_type)
  /\ raised' = "none"
  /\ escaped' = FALSE
  /\ result' = NoResult
  /\ pc' = "create_variables"
  /\ exact' = TRUE
  /\ readback' = <<>>
  /\ stale' = StaleKeys(ps)
  /\ UNCHANGED <<config, variables, elapsed, candidateVars>>
Optimize(ps) ==
  /\ pc = "idle"
  /\ products' = ps
  /\ solver' = CreateSolver(config.solver_type)
  /\ raised' = "none"
  /\ escaped' = FALSE
  /\ IF solver' = None
     THEN /\ result' = [status |-> "ERROR", message |-> "Solver unavailable"]
          /\ pc' = "idle"
     ELSE /\ result' = NoResult
          /\ pc' = "create_variables"
  /\ exact' = TRUE
  /\ readback' = <<>>
  /\ stale' = StaleKeys(ps)
  /\ UNCHANGED <<config, variables, elapsed, candidateVars>>

(***************************************************************************)
(* _create_variables, lines 145-161.                                       *)
(***************************************************************************)
\* max_qty = int(forecast * demand_multiplier * demand_buffer)
MaxQty_Unbuffered(p, month) ==
  LET f == ForecastMonth(p.demand_forecast, month)
  IN  PyInt(f[1] * config.demand_multiplier[1], f[2] * config.demand_multiplier[2])
MaxQty(p, month) ==
  LET f == ForecastMonth(p.demand_forecast, month)
  IN  PyInt(f[1] * config.demand_multiplier[1] * p.demand_forecast.demand_buffer[1],
            f[2] * config.demand_multiplier[2] * p.demand_forecast.demand_buffer[2])

\* The IntVar calls of one product, in month order.
NewVars(p) ==
  [m \in Months |-> [name |-> <<p.id, m>>, lb |-> 0, ub |-> MaxQty(p, m)]]

\* self.variables[product.id] = {...}: a dict assignment.
SetKey(dict, key, value) ==
  [k \in (DOMAIN dict) \cup {key} |-> IF k = key THEN value ELSE dict[k]]

\* The loop over products from position k on: <<solver vars, self.variables>>.
RECURSIVE CreateVariablesFrom(_, _, _)
CreateVariablesFrom(k, svars, vmap) ==
  IF k > Len(products) THEN <<svars, vmap>>
  ELSE LET p == products[k]
           new == NewVars(p)
       IN  CreateVariablesFrom(
             k + 1, svars \o new,
             SetKey(vmap, p.id, [m \in DOMAIN new |-> Len(svars) + m]))

\* _create_variables without line 147: the dict of the earlier call is kept.
CreateVariables_KeepKeys ==
  /\ pc = "create_variables"
  /\ LET built == CreateVariablesFrom(1, solver.vars, variables)
     IN  /\ solver' = [solver EXCEPT !.vars = built[1]]
         /\ variables' = built[2]
  /\ pc' = "create_objective"
  /\ UNCHANGED <<config, products, result, raised, escaped, elapsed, exact,
               readback, stale, candidateVars>>

CreateVariables ==
  /\ pc = "create_variables"
  /\ LET built == CreateVariablesFrom(1, solver.vars, <<>>)
     IN  /\ solver' = [solver EXCEPT !.vars = built[1]]
         /\ variables' = built[2]
  /\ pc' = "create_objective"
  /\ UNCHANGED <<config, products, result, raised, escaped, elapsed, exact,
               readback, stale, candidateVars>>

(***************************************************************************)
(* Linear expressions over the solver's variables: sequences of            *)
(* <<coefficient, variable index>> terms.                                  *)
(***************************************************************************)
Var(p, month) == variables[p.id][month]

ProductTerms(coefs, month) ==
  [k \in 1..Len(products) |-> <<coefs[k], Var(products[k], month)>>]

Negated(terms) == [k \in DOMAIN terms |-> <<-terms[k][1], terms[k][2]>>]

Coefficients(terms, n) ==
  [i \in 1..n |->
     SumSeq([k \in 1..Len(terms) |-> IF terms[k][2] = i THEN terms[k][1] ELSE 0])]

RECURSIVE ConcatMonths(_, _)
ConcatMonths(termsOf, month) ==
  IF month > config.planning_months THEN <<>>
  ELSE termsOf[month] \o ConcatMonths(termsOf, month + 1)

(***************************************************************************)
(* _create_objective, lines 163-198 (money times Cm3PerM3).                *)
(***************************************************************************)
MarginCoef(p) == Cm3PerM3 * Margin(p)
WeightCostCoef(p) == config.shipping.cost_per_kg * p.weight_g * (Cm3PerM3 \div GramsPerKg)
VolumeCostCoef(p) == config.shipping.cost_per_m3 * p.size_cm3
CustomsCoef(p) == config.shipping.customs_duty_rate * p.wholesale_price

CustomsTerms_Always(month) == Negated(ProductTerms([k \in 1..Len(products) |-> CustomsCoef(products[k])], month))
CustomsTerms(month) ==
  IF config.shipping.crosses_border
  THEN Negated(ProductTerms([k \in 1..Len(products) |-> CustomsCoef(products[k])], month))
  ELSE <<>>

ObjectiveTermsOfMonth(month) ==
  ProductTerms([k \in 1..Len(products) |-> MarginCoef(products[k])], month)
    \o Negated(ProductTerms([k \in 1..Len(products) |-> WeightCostCoef(products[k])], month))
    \o Negated(ProductTerms([k \in 1..Len(products) |-> VolumeCostCoef(products[k])], month))
    \o CustomsTerms(month)

CreateObjective ==
  /\ pc = "create_objective"
  /\ solver' = [solver EXCEPT !.objective =
                  Coefficients(ConcatMonths([m \in Months |-> ObjectiveTermsOfMonth(m)], 1), Len(solver.vars))]
  /\ pc' = "create_constraints"
  /\ UNCHANGED <<config, products, variables, result, raised, escaped, elapsed, exact,
               readback, stale, candidateVars>>

(***************************************************************************)
(* _create_constraints, lines 200-247.                                     *)
(***************************************************************************)
\* A budget row that charges nothing for any product.
WholesaleCoef_Free(p) == 0

WholesaleCoef(p) == p.wholesale_price
SizeCoef(p) == p.size_cm3
WeightCoef(p) == p.weight_g

Constraint(name, terms, bound) ==
  [name |-> name, coefs |-> Coefficients(terms, Len(solver.vars)), bound |-> bound]

BudgetTerms(month) == ProductTerms([k \in 1..Len(products) |-> WholesaleCoef(products[k])], month)
SizeTerms(month) == ProductTerms([k \in 1..Len(products) |-> SizeCoef(products[k])], month)
WeightTerms(month) == ProductTerms([k \in 1..Len(products) |-> WeightCoef(products[k])], month)

BudgetConstraints_FirstMonthOnly ==
  [m \in 1..1 |-> Constraint(<<"budget", m>>, BudgetTerms(m), config.budget_per_month)]
BudgetConstraints ==
  [m \in Months |-> Constraint(<<"budget", m>>, BudgetTerms(m), config.budget_per_month)]

WarehouseConstraints_PerMonth ==
  [m \in Months |->
     Constraint(<<"warehouse_capacity", m>>, SizeTerms(m),
                config.warehouse_capacity_m3 * Cm3PerM3)]
WarehouseConstraints ==
  << Constraint(<<"warehouse_capacity", 0>>, ConcatMonths([m \in Months |-> SizeTerms(m)], 1),
                config.warehouse_capacity_m3 * Cm3PerM3) >>

ShippingWeightConstraints_FirstMonthOnly ==
  [m \in 1..1 |->
     Constraint(<<"shipping_weight", m>>, WeightTerms(m),
                config.shipping.max_weight_kg * GramsPerKg)]
ShippingWeightConstraints ==
  [m \in Months |->
     Constraint(<<"shipping_weight", m>>, WeightTerms(m),
                config.shipping.max_weight_kg * GramsPerKg)]

ShippingVolumeConstraints ==
  [m \in Months |->
     Constraint(<<"shipping_volume", m>>, SizeTerms(m),
                config.shipping.max_volume_m3 * Cm3PerM3)]

CreateConstraints ==
  /\ pc = "create_constraints"
  /\ solver' = [solver EXCEPT !.constraints =
                  BudgetConstraints \o WarehouseConstraints
                    \o ShippingWeightConstraints \o ShippingVolumeConstraints]
  /\ pc' = "solve"
  /\ UNCHANGED <<config, products, variables, result, raised, escaped, elapsed, exact,
               readback, stale, candidateVars>>

(***************************************************************************)
(* The MILP solving capability behind self.solver.Solve(), line 137: an    *)
(* opaque engine whose OPTIMAL, FEASIBLE and INFEASIBLE answers are true   *)
(* of the model it was given.                                              *)
(***************************************************************************)
LinearValue(coefs, x) == SumSeq([i \in 1..Len(coefs) |-> coefs[i] * x[i]])

Satisfies(s, x) ==
  \A c \in 1..Len(s.constraints) :
       LinearValue(s.constraints[c].coefs, x) <= s.constraints[c].bound

SetMax(S) == CHOOSE v \in S : \A w \in S : w <= v

\* The integer points within the bounds of the first i variables.
RECURSIVE Assignments(_, _)
Assignments(s, i) ==
  IF i = 0 THEN {<<>>}
  ELSE {Append(x, v) : x \in Assignments(s, i - 1), v \in s.vars[i].lb .. s.vars[i].ub}

FeasibleSet(s) == {x \in Assignments(s, Len(s.vars)) : Satisfies(s, x)}

\* Objective().Value(): the objective at the solution found.
ObjectiveValue(s) == LinearValue(s.objective, s.solution)

Zeros(n) == [i \in 1..n |-> 0]

NoSolutionStatuses == {"UNBOUNDED", "ABNORMAL", "MODEL_INVALID", "NOT_SOLVED"}

\* <<status, solution>>: what Solve() may answer for the model it was given.
SolveOutcomes(s) ==
  LET F == FeasibleSet(s)
      best == {x \in F : \A y \in F :
                 LinearValue(s.objective, y) <= LinearValue(s.objective, x)}
  IN  ({"OPTIMAL"} \X best)
        \cup ({"FEASIBLE"} \X F)
        \cup ((IF F = {} THEN {"INFEASIBLE"} ELSE {}) \X {Zeros(Len(s.vars))})
        \cup (NoSolutionStatuses \X {Zeros(Len(s.vars))})

\* The wall-clock second at which the engine gives up searching.
SolveDeadline(s) == IF s.time_limit = NoLimit THEN MaxSolveTicks ELSE s.time_limit

\* status = self.solver.Solve(): the call is made.
SolveInvoke ==
  /\ pc = "solve"
  /\ pc' = "solving"
  /\ elapsed' = 0
  /\ UNCHANGED <<config, products, solver, variables, result, raised, escaped, exact,
               readback, stale, candidateVars>>

\* One more second passes inside Solve().
SolveTick ==
  /\ pc = "solving"
  /\ elapsed < SolveDeadline(solver)
  /\ elapsed' = elapsed + 1
  /\ UNCHANGED <<pc, config, products, solver, variables, result, raised, escaped, exact,
               readback, stale, candidateVars>>

\* The engine stops searching.
SolveStop ==
  /\ pc = "solving"
  /\ pc' = "solve_return"
  /\ elapsed' = 0
  /\ UNCHANGED <<config, products, solver, variables, result, raised, escaped, exact,
               readback, stale, candidateVars>>

\* Solve() returns its status; the solver holds the solution.
SolveReturn ==
  /\ pc = "solve_return"
  /\ \E o \in SolveOutcomes(solver) :
       solver' = [solver EXCEPT !.status = o[1], !.solution = o[2]]
  /\ pc' = "extract_results"
  /\ UNCHANGED <<config, products, variables, result, raised, escaped, elapsed, exact,
               readback, stale, candidateVars>>

\* solution_value() returns a float: the integer found (0), or a value just
\* below it (-1) or just above it (1), for at most k variables.
RECURSIVE NoiseVectors(_, _)
NoiseVectors(n, k) ==
  IF k = 0 THEN {Zeros(n)}
  ELSE LET less == NoiseVectors(n, k - 1)
       IN  less \cup {[d EXCEPT ![i] = sgn] : d \in less, i \in 1..n, sgn \in {-1, 1}}

(***************************************************************************)
(* _extract_results, lines 249-344.                                        *)
(***************************************************************************)
ClassifyStatus(solver_status) ==
  IF solver_status = "OPTIMAL" THEN "OPTIMAL"
  ELSE IF solver_status = "FEASIBLE" THEN "FEASIBLE"
  ELSE "INFEASIBLE"

\* int(x) of a float x that is n, just below n (d < 0) or just above n (d > 0).
IntOfFloat(n, d) ==
  IF d < 0 /\ n > 0 THEN n - 1
  ELSE IF d > 0 /\ n < 0 THEN n + 1
  ELSE n

\* qty = int(self.variables[product.id][month].solution_value()), for every
\* product position k and month, given the floats' deviations.
Quantities(noise) ==
  [k \in 1..Len(products) |->
     [m \in Months |->
        IntOfFloat(solver.solution[Var(products[k], m)], noise[Var(products[k], m)])]]

Order(p, qty) ==
  [name |-> p.name, quantity |-> qty,
   unit_wholesale |-> p.wholesale_price, total_cost |-> p.wholesale_price * qty,
   unit_retail |-> p.retail_price, total_revenue |-> p.retail_price * qty,
   margin |-> p.retail_price * qty - p.wholesale_price * qty,
   weight_kg |-> p.weight_g * qty, volume_m3 |-> p.size_cm3 * qty]

\* An order for every product, whatever its quantity.
Ordered_Always(qty, month) == 1..Len(products)

\* if qty > 0
Ordered(qty, month) == {k \in 1..Len(products) : qty[k][month] > 0}

\* results['purchase_orders'][month][product.id] = {...}: the last write wins.
PurchaseOrdersOfMonth(qty, month) ==
  [id \in {products[k].id : k \in Ordered(qty, month)} |->
     LET k == SetMax({j \in Ordered(qty, month) : products[j].id = id})
     IN  Order(products[k], qty[k][month])]

\* The month's totals taken from the values the solver holds, not from the
\* quantities read back.
MonthTotal_FromSolution(qty, month, field) ==
  SumSeq([k \in 1..Len(products) |->
            Order(products[k], solver.solution[Var(products[k], month)])[field]])

\* month_cost += cost, and so on, over the products with qty > 0.
MonthTotal(qty, month, field) ==
  SumSeq([k \in 1..Len(products) |->
            IF k \in Ordered(qty, month)
            THEN Order(products[k], qty[k][month])[field] ELSE 0])

MonthlyBreakdown(qty, month) ==
  LET month_cost == MonthTotal(qty, month, "total_cost")
      month_revenue == MonthTotal(qty, month, "total_revenue")
      month_weight == MonthTotal(qty, month, "weight_kg")
      month_volume == MonthTotal(qty, month, "volume_m3")
      weight_shipping ==
        config.shipping.cost_per_kg * month_weight * (Cm3PerM3 \div GramsPerKg)
      volume_shipping == config.shipping.cost_per_m3 * month_volume
      customs == IF config.shipping.crosses_border
                 THEN config.shipping.customs_duty_rate * month_cost ELSE 0
  IN  [product_cost |-> month_cost,
       product_revenue |-> month_revenue,
       gross_margin |-> month_revenue - month_cost,
       weight_shipping |-> weight_shipping,
       volume_shipping |-> volume_shipping,
       customs_duty |-> customs,
       total_costs |-> Cm3PerM3 * month_cost + weight_shipping + volume_shipping + customs,
       net_profit |-> Cm3PerM3 * month_revenue - Cm3PerM3 * month_cost
                        - weight_shipping - volume_shipping - customs,
       weight_kg |-> month_weight,
       volume_m3 |-> month_volume,
       items_ordered |-> Cardinality(DOMAIN PurchaseOrdersOfMonth(qty, month))]

\* The sums of one product's month entries, looked up by product.id.
ProductTotal(p, orders, field) ==
  SumSeq([m \in Months |-> IF p.id \in DOMAIN orders[m] THEN orders[m][p.id][field] ELSE 0])

ProductTotals(orders) ==
  LET listed == {k \in 1..Len(products) : ProductTotal(products[k], orders, "quantity") > 0}
  IN  [id \in {products[k].id : k \in listed} |->
         LET p == products[SetMax({j \in listed : products[j].id = id})]
         IN  [name |-> p.name,
              total_quantity |-> ProductTotal(p, orders, "quantity"),
              total_cost |-> ProductTotal(p, orders, "total_cost"),
              total_revenue |-> ProductTotal(p, orders, "total_revenue"),
              total_margin |-> ProductTotal(p, orders, "total_revenue")
                                 - ProductTotal(p, orders, "total_cost")]]

EmptyResults(status) ==
  [status |-> status, objective_value |-> 0, purchase_orders |-> <<>>,
   monthly_breakdown |-> <<>>, product_totals |-> <<>>]

PopulatedResults(status, qty) ==
  LET orders == [m \in Months |-> PurchaseOrdersOfMonth(qty, m)]
  IN  [status |-> status,
       objective_value |-> ObjectiveValue(solver),
       purchase_orders |-> orders,
       monthly_breakdown |-> [m \in Months |-> MonthlyBreakdown(qty, m)],
       product_totals |-> ProductTotals(orders)]

ExtractedResults_Unguarded(solver_status, qty) ==
  PopulatedResults(ClassifyStatus(solver_status), qty)
ExtractedResults(solver_status, qty) ==
  LET status == ClassifyStatus(solver_status)
  IN  IF status \in {"OPTIMAL", "FEASIBLE"}
      THEN PopulatedResults(status, qty)
      ELSE EmptyResults(status)

\* <<quantities read back, whether every float read was an exact integer>>
Readbacks ==
  LET n == Len(solver.vars)
  IN  {<<Quantities(noise), noise = Zeros(n)>> : noise \in NoiseVectors(n, MaxNoisy)}

ExtractResults ==
  /\ pc = "extract_results"
  /\ \E r \in Readbacks :
       /\ solver.status \notin {"OPTIMAL", "FEASIBLE"} => r[2]
       /\ result' = ExtractedResults(solver.status, r[1])
       /\ exact' = r[2]
       /\ readback' = r[1]
  /\ pc' = "idle"
  /\ UNCHANGED <<config, products, solver, variables, raised, escaped, elapsed, stale, candidateVars>>

(***************************************************************************)
(* The try block of optimize(), lines 126-143.                             *)
(***************************************************************************)
TryPhases ==
  {"create_variables", "create_objective", "create_constraints",
   "solve", "solving", "solve_return", "extract_results"}

\* What may be raised at any point: a MemoryError (an Exception) and a
\* KeyboardInterrupt (a BaseException that is not an Exception).
Raisable == {"MemoryError", "KeyboardInterrupt"}

\* A handler that matches no exception at all.
Caught_Nothing(e) == FALSE

\* except Exception as e: KeyboardInterrupt derives from BaseException.
Caught(e) == e /= "KeyboardInterrupt"

Raise(e) ==
  /\ pc \in TryPhases
  /\ raised' = e
  /\ IF Caught(e)
     THEN /\ result' = [status |-> "ERROR", message |-> e]
          /\ escaped' = FALSE
     ELSE /\ result' = NoResult
          /\ escaped' = TRUE
  /\ pc' = "idle"
  /\ elapsed' = 0
  /\ UNCHANGED <<config, products, solver, variables, exact,
               readback, stale, candidateVars>>

Next ==
  \/ \E ps \in ProductLists : Optimize(ps)
  \/ CreateVariables
  \/ CreateObjective
  \/ CreateConstraints
  \/ SolveInvoke
  \/ SolveTick
  \/ SolveStop
  \/ SolveReturn
  \/ ExtractResults
  \/ \E e \in Raisable : Raise(e)

Spec == Init /\ [][Next]_vars

(***************************************************************************)
(* The optimizer with no budget at all, for lists that may hold a product   *)
(* that costs nothing: Product accepts any wholesale_price.                 *)
(***************************************************************************)
FreeSample ==
  [name |-> "sample", wholesale_price |-> 0, retail_price |-> 5,
   size_cm3 |-> 1000, weight_g |-> 500, demand_forecast |-> CallerForecast(2)]

Gadget == CHOOSE c \in Catalog : c.name = "gadget"

ZeroBudgetLists ==
  { <<WithId(Gadget, 1)>>, <<WithId(FreeSample, 1)>>,
    <<WithId(Gadget, 1), WithId(FreeSample, 2)>>,
    <<WithId(FreeSample, 1), WithId(Gadget, 2)>> }

ZeroBudgetConfigs == {c \in Configs : c.budget_per_month = 0 /\ c.planning_months >= 1}

ZeroBudgetInit ==
  /\ pc = "idle"
  /\ config \in ZeroBudgetConfigs
  /\ products = <<>>
  /\ solver = None
  /\ variables = <<>>
  /\ result = NoResult
  /\ raised = "none"
  /\ escaped = FALSE
  /\ elapsed = 0
  /\ exact = TRUE
  /\ readback = <<>>
  /\ stale = {}
  /\ range = NotCalled
  /\ flt = NotCalled
  /\ tier = NotCalled
  /\ gen = NotCalled
  /\ fc = NotCalled
  /\ sel = NotCalled

ZeroBudgetNext ==
  \/ \E ps \in ZeroBudgetLists : Optimize(ps)
  \/ CreateVariables
  \/ CreateObjective
  \/ CreateConstraints
  \/ SolveInvoke
  \/ SolveTick
  \/ SolveStop
  \/ SolveReturn
  \/ ExtractResults
  \/ \E e \in Raisable : Raise(e)

ZeroBudgetSpec == ZeroBudgetInit /\ [][ZeroBudgetNext]_vars

(***************************************************************************)
(* The optimizer on the end-to-end scenario: one product, one month.  The  *)
(* scenario gives no seasonal factors, and DemandForecast requires some:   *)
(* the defaults of SeasonalFactors (0.8 for month 1), or a mapping without *)
(* month 1, for which get() returns 1.0.                                   *)
(***************************************************************************)
NoSeasonalFactors == <<>>

EndToEndProduct(factors) ==
  [name |-> "widget", wholesale_price |-> 10, retail_price |-> 20,
   size_cm3 |-> 1000, weight_g |-> 500,
   demand_forecast |->
     [base_demand |-> 100, seasonal_factors |-> factors,
      trend_factor |-> <<1, 1>>, demand_buffer |-> <<3, 2>>]]

EndToEndLists ==
  { <<WithId(EndToEndProduct(DefaultSeasonalFactors), 1)>>,
    <<WithId(EndToEndProduct(NoSeasonalFactors), 1)>> }

EndToEndConfig ==
  [planning_months |-> 1, budget_per_month |-> 1000, warehouse_capacity_m3 |-> 10,
   shipping |-> [cost_per_kg |-> 2, cost_per_m3 |-> 50, max_weight_kg |-> 1000,
                 max_volume_m3 |-> 10, crosses_border |-> FALSE,
                 customs_duty_rate |-> 100000],
   solver_time_limit_seconds |-> 1, solver_type |-> "SCIP",
   demand_multiplier |-> <<1, 1>>]

EndToEndInit ==
  /\ pc = "idle"
  /\ config = EndToEndConfig
  /\ products = <<>>
  /\ solver = None
  /\ variables = <<>>
  /\ result = NoResult
  /\ raised = "none"
  /\ escaped = FALSE
  /\ elapsed = 0
  /\ exact = TRUE
  /\ readback = <<>>
  /\ stale = {}
  /\ range = NotCalled
  /\ flt = NotCalled
  /\ tier = NotCalled
  /\ gen = NotCalled
  /\ fc = NotCalled
  /\ sel = NotCalled

EndToEndNext ==
  \/ \E ps \in EndToEndLists : Optimize(ps)
  \/ CreateVariables
  \/ CreateObjective
  \/ CreateConstraints
  \/ SolveInvoke
  \/ SolveTick
  \/ SolveStop
  \/ SolveReturn
  \/ ExtractResults
  \/ \E e \in Raisable : Raise(e)

EndToEndSpec == EndToEndInit /\ [][EndToEndNext]_vars

(***************************************************************************)
(* The range generators of productcreator.py, lines 94-146: four copies of *)
(* one loop.  Values are decimals held in thousandths.  The program adds   *)
(* in binary floating point: a sum of values that binary represents        *)
(* exactly (multiples of 1/8 here) is exact, any other sum may come out    *)
(* just below (-1) or just above (1) the decimal it stands for, and        *)
(* `drift` keeps which.                                                    *)
(***************************************************************************)
\* An optimizer that is not used.
OptimizerUnused ==
  /\ pc = "idle"
  /\ config = EndToEndConfig
  /\ products = <<>>
  /\ solver = None
  /\ variables = <<>>
  /\ result = NoResult
  /\ raised = "none"
  /\ escaped = FALSE
  /\ elapsed = 0
  /\ exact = TRUE
  /\ readback = <<>>
  /\ stale = {}

RangeGenerators ==
  {"generate_price_range", "generate_weight_range", "generate_size_range",
   "generate_shipping_costs"}

\* <<min, max, step>> in thousandths.
RangeArguments ==
  { <<1000, 10000, 3000>>, <<2000, 8000, 2000>>, <<1000, 1000, 1000>>,
    <<500, 2000, 500>>, <<100, 300, 100>>, <<200, 600, 200>>, <<100, 700, 300>>,
    <<1000, 1010, 4>>, <<125, 1000, 500>>, <<5000, 1000, 1000>>,
    <<1000, 3000, 0>>, <<1000, 3000, -1000>>, <<3000, 1000, 0>> }

BinaryExact(v) == v % 125 = 0

\* current <= max, for a float that stands for `current` with a drift.
FloatLeq(current, drift, max) == current < max \/ (current = max /\ drift <= 0)

\* The drifts `current + step` may have.
DriftsOfSum(current, drift, step) ==
  IF BinaryExact(current) /\ drift = 0 /\ BinaryExact(step) THEN {0} ELSE {-1, 0, 1}

\* round(current, 2): to the nearest hundredth.  A tie goes to the even
\* hundredth when the float is the decimal exactly, and otherwise to the side
\* the float lies on.
Round2(current, drift) ==
  LET r == current % 10
      down == current - r
      up == down + 10
  IN  IF r < 5 THEN {down}
      ELSE IF r > 5 THEN {up}
      ELSE IF BinaryExact(current) /\ drift = 0
           THEN {IF (down \div 10) % 2 = 0 THEN down ELSE up}
           ELSE {down, up}

\* The call: prices = [], current = min_price.
GenerateRange(fn, min, max, step) ==
  /\ range.pc = "idle"
  /\ range' = [pc |-> "loop", fn |-> fn, min |-> min, max |-> max, step |-> step,
               current |-> min, drift |-> 0, out |-> <<>>]
  /\ UNCHANGED <<optimizerVars, flt, tier, gen, fc, sel>>

\* while current <= max: append(round(current, 2)); current += step
RangeLoop ==
  /\ range.pc = "loop"
  /\ FloatLeq(range.current, range.drift, range.max)
  /\ Len(range.out) < MaxRangeLen
  /\ \E r \in Round2(range.current, range.drift) :
     \E d \in DriftsOfSum(range.current, range.drift, range.step) :
       range' = [range EXCEPT !.out = Append(@, r),
                              !.current = @ + range.step,
                              !.drift = d]
  /\ UNCHANGED <<optimizerVars, flt, tier, gen, fc, sel>>

\* The loop test fails: return the list.
RangeReturn ==
  /\ range.pc = "loop"
  /\ ~FloatLeq(range.current, range.drift, range.max)
  /\ range' = [range EXCEPT !.pc = "done"]
  /\ UNCHANGED <<optimizerVars, flt, tier, gen, fc, sel>>

RangeInit ==
  /\ OptimizerUnused
  /\ range = NotCalled
  /\ flt = NotCalled
  /\ tier = NotCalled
  /\ gen = NotCalled
  /\ fc = NotCalled
  /\ sel = NotCalled

RangeNext ==
  \/ \E fn \in RangeGenerators : \E a \in RangeArguments :
       GenerateRange(fn, a[1], a[2], a[3])
  \/ RangeLoop
  \/ RangeReturn

RangeSpec == RangeInit /\ [][RangeNext]_vars

(***************************************************************************)
(* is_realistic_combination, productcreator.py lines 151-212.  Prices are  *)
(* whole dollars, weights grams, sizes cm3 and densities hundredths of     *)
(* kg/L; a quotient is compared by cross-multiplication.                   *)
(***************************************************************************)
DensityDen == 100

\* density < limit, with density = weight_kg / volume_liters if volume_liters > 0 else 0
DensityBelow(weight_g, size_cm3, limit) ==
  IF size_cm3 > 0 THEN weight_g * DensityDen < limit * size_cm3 ELSE 0 < limit

\* density > limit
DensityAbove(weight_g, size_cm3, limit) ==
  IF size_cm3 > 0 THEN weight_g * DensityDen > limit * size_cm3 ELSE 0 > limit

\* value_per_kg < limit, with value_per_kg = price / weight_kg if weight_kg > 0 else 0
ValuePerKgBelow(price, weight_g, limit) ==
  IF weight_g > 0 THEN price * GramsPerKg < limit * weight_g ELSE 0 < limit

\* The filter without the size rule for luxury items.
IsRealisticCombination_AnyLuxurySize(price, weight_g, size_cm3, density_min, density_max) ==
  IF DensityBelow(weight_g, size_cm3, density_min)
       \/ DensityAbove(weight_g, size_cm3, density_max) THEN FALSE
  ELSE IF price < 10 /\ weight_g > 5 * GramsPerKg THEN FALSE
  ELSE IF price < 5 /\ size_cm3 > 10000 THEN FALSE
  ELSE IF 100 <= price /\ price <= 1000 /\ ValuePerKgBelow(price, weight_g, 10) THEN FALSE
  ELSE IF price >= 1000 /\ ValuePerKgBelow(price, weight_g, 50) THEN FALSE
  ELSE IF size_cm3 > 20000 /\ 2 * weight_g < GramsPerKg THEN FALSE
  ELSE IF weight_g > 10 * GramsPerKg /\ size_cm3 < 1000 /\ price < 100 THEN FALSE
  ELSE TRUE

\* The filter with the density test inverted: a density inside the window
\* is the one rejected.
IsRealisticCombination_InsideWindow(price, weight_g, size_cm3, density_min, density_max) ==
  IF ~DensityBelow(weight_g, size_cm3, density_min)
       /\ ~DensityAbove(weight_g, size_cm3, density_max) THEN FALSE
  ELSE IF price < 10 /\ weight_g > 5 * GramsPerKg THEN FALSE
  ELSE IF price < 5 /\ size_cm3 > 10000 THEN FALSE
  ELSE IF 100 <= price /\ price <= 1000 /\ ValuePerKgBelow(price, weight_g, 10) THEN FALSE
  ELSE IF price >= 1000 /\ ValuePerKgBelow(price, weight_g, 50) THEN FALSE
  ELSE IF price >= 1000 /\ size_cm3 > 30000 THEN FALSE
  ELSE IF size_cm3 > 20000 /\ 2 * weight_g < GramsPerKg THEN FALSE
  ELSE IF weight_g > 10 * GramsPerKg /\ size_cm3 < 1000 /\ price < 100 THEN FALSE
  ELSE TRUE

IsRealisticCombination(price, weight_g, size_cm3, density_min, density_max) ==
  IF DensityBelow(weight_g, size_cm3, density_min)
       \/ DensityAbove(weight_g, size_cm3, density_max) THEN FALSE
  ELSE IF price < 10 /\ weight_g > 5 * GramsPerKg THEN FALSE
  ELSE IF price < 5 /\ size_cm3 > 10000 THEN FALSE
  ELSE IF 100 <= price /\ price <= 1000 /\ ValuePerKgBelow(price, weight_g, 10) THEN FALSE
  ELSE IF price >= 1000 /\ ValuePerKgBelow(price, weight_g, 50) THEN FALSE
  ELSE IF price >= 1000 /\ size_cm3 > 30000 THEN FALSE
  ELSE IF size_cm3 > 20000 /\ 2 * weight_g < GramsPerKg THEN FALSE
  ELSE IF weight_g > 10 * GramsPerKg /\ size_cm3 < 1000 /\ price < 100 THEN FALSE
  ELSE TRUE

FilterPrices == {4, 5, 9, 10, 99, 100, 1000, 1001}
FilterWeights == {0, 400, 500, 5000, 5001, 10000, 10001, 20000, 20001, 100001}
FilterSizes == {0, 999, 1000, 10000, 10001, 20000, 20001, 30000, 30001}
\* <<density_min, density_max>>: the defaults 0.01 and 10.0, and bounds that
\* reject no density.
FilterDensityBounds == {<<1, 1000>>, <<0, 20000>>}

\* The call, as generate_all_product_candidates makes it for a combination.
FilterCall(price, weight_g, size_cm3, bounds) ==
  /\ flt.pc = "idle"
  /\ flt' = [pc |-> "called", price |-> price, weight_g |-> weight_g,
             size_cm3 |-> size_cm3, density_min |-> bounds[1],
             density_max |-> bounds[2]]
  /\ UNCHANGED <<optimizerVars, range, tier, gen, fc, sel>>

FilterReturn ==
  /\ flt.pc = "called"
  /\ flt' = [pc |-> "done", price |-> flt.price, weight_g |-> flt.weight_g,
             size_cm3 |-> flt.size_cm3, density_min |-> flt.density_min,
             density_max |-> flt.density_max,
             realistic |-> IsRealisticCombination(flt.price, flt.weight_g, flt.size_cm3,
                                                  flt.density_min, flt.density_max)]
  /\ UNCHANGED <<optimizerVars, range, tier, gen, fc, sel>>

FilterInit ==
  /\ OptimizerUnused
  /\ range = NotCalled
  /\ flt = NotCalled
  /\ tier = NotCalled
  /\ gen = NotCalled
  /\ fc = NotCalled
  /\ sel = NotCalled

FilterNext ==
  \/ \E price \in FilterPrices : \E weight_g \in FilterWeights :
     \E size_cm3 \in FilterSizes : \E bounds \in FilterDensityBounds :
       FilterCall(price, weight_g, size_cm3, bounds)
  \/ FilterReturn

FilterSpec == FilterInit /\ [][FilterNext]_vars

(***************************************************************************)
(* The filter called twice for one combination, under two density windows. *)
(***************************************************************************)
\* <<density_min, density_max>> in hundredths: the windows of the filter
\* presets (0.01-10, 0.05-8, 0.1-5), one inside them all and one that rejects
\* no density.
FilterWindows == {<<0, 20000>>, <<1, 1000>>, <<5, 800>>, <<10, 500>>, <<50, 100>>}

\* A further call for the same price, weight and size, with a window of its
\* own; the record keeps what the call before answered.
FilterAgain(bounds) ==
  /\ flt.pc = "done"
  /\ flt' = [pc |-> "again", price |-> flt.price, weight_g |-> flt.weight_g,
             size_cm3 |-> flt.size_cm3, density_min |-> bounds[1],
             density_max |-> bounds[2],
             realistic |-> IsRealisticCombination(flt.price, flt.weight_g, flt.size_cm3,
                                                  bounds[1], bounds[2]),
             before |-> [density_min |-> flt.density_min,
                         density_max |-> flt.density_max,
                         realistic |-> flt.realistic]]
  /\ UNCHANGED <<optimizerVars, range, tier, gen, fc, sel>>

WindowNext ==
  \/ \E price \in FilterPrices : \E weight_g \in FilterWeights :
     \E size_cm3 \in FilterSizes : \E bounds \in FilterWindows :
       FilterCall(price, weight_g, size_cm3, bounds)
  \/ FilterReturn
  \/ \E bounds \in FilterWindows : FilterAgain(bounds)

WindowSpec == FilterInit /\ [][WindowNext]_vars

(***************************************************************************)
(* The business rule tables of config_models.py and the lookups of         *)
(* productcreator.py, lines 215-281.  Prices are whole dollars.  A markup  *)
(* and a markup_multiplier are in quarters, a demand_multiplier in tenths  *)
(* and an estimated demand in two-hundredths, which holds every product of *)
(* a whole base demand, a multiplier in tenths, 0.5 and 0.7 exactly.       *)
(***************************************************************************)
MarkupDen == 4
MultiplierDen == 10
DemandDen == 200
TopOfTiers == 999999
FallbackDemand == 5

MarkupTier(min_cost, max_cost, markup_multiplier) ==
  [min_cost |-> min_cost, max_cost |-> max_cost,
   markup_multiplier |-> markup_multiplier]

DemandTier(min_price, max_price, base_demand_monthly, demand_multiplier, max_demand_monthly) ==
  [min_price |-> min_price, max_price |-> max_price,
   base_demand_monthly |-> base_demand_monthly,
   demand_multiplier |-> demand_multiplier,
   max_demand_monthly |-> max_demand_monthly]

\* What a config.cfg sets, with the fallbacks of from_cfg_file: the markups
\* tier_6_markup .. tier_1_markup, the thresholds tier_7_threshold ..
\* tier_2_threshold and the demands tier_7_demand .. tier_1_demand.
DefaultCfg ==
  [markup |-> <<8, 6, 5, 4, 3, 2>>,
   threshold |-> <<50, 100, 500, 1000, 3000, 5000>>,
   demand |-> <<320, 280, 240, 200, 160, 120, 80>>]

\* [demand_model] tier_7_threshold = 200, the rest left to the fallbacks.
MisorderedCfg == [DefaultCfg EXCEPT !.threshold[1] = 200]

\* Thresholds of a shop of cheap goods, in ascending order.
CheapGoodsCfg == [DefaultCfg EXCEPT !.threshold = <<1, 2, 3, 4, 5, 6>>]

\* AppConfig.from_cfg_file: the tier tables.
FromCfgFile(cfg) ==
  [markup_tiers |->
     << MarkupTier(0, 50, MarkupDen + cfg.markup[1]),
        MarkupTier(50, 100, MarkupDen + cfg.markup[2]),
        MarkupTier(100, 500, MarkupDen + cfg.markup[3]),
        MarkupTier(500, 1000, MarkupDen + cfg.markup[4]),
        MarkupTier(1000, 3000, MarkupDen + cfg.markup[5]),
        MarkupTier(3000, TopOfTiers, MarkupDen + cfg.markup[6]) >>,
   demand_tiers |->
     << DemandTier(0, cfg.threshold[1], cfg.demand[1], MultiplierDen, 500),
        DemandTier(cfg.threshold[1], cfg.threshold[2], cfg.demand[2], MultiplierDen, 400),
        DemandTier(cfg.threshold[2], cfg.threshold[3], cfg.demand[3], MultiplierDen, 300),
        DemandTier(cfg.threshold[3], cfg.threshold[4], cfg.demand[4], MultiplierDen, 200),
        DemandTier(cfg.threshold[4], cfg.threshold[5], cfg.demand[5], MultiplierDen, 100),
        DemandTier(cfg.threshold[5], cfg.threshold[6], cfg.demand[6], MultiplierDen, 50),
        DemandTier(cfg.threshold[6], TopOfTiers, cfg.demand[7], MultiplierDen, 20) >>]

\* AppConfig(): both tables empty.
EmptyAppConfig == [markup_tiers |-> <<>>, demand_tiers |-> <<>>]

\* An AppConfig a caller builds from the dataclasses: brackets that overlap
\* and are not in ascending order, a demand_multiplier of 1.5, a cap below
\* the base demand and a cap below 1.
HandBuiltAppConfig ==
  [markup_tiers |->
     << MarkupTier(100, 500, 8), MarkupTier(0, 300, 12), MarkupTier(0, 50, 6) >>,
   demand_tiers |->
     << DemandTier(100, 500, 40, 15, 30), DemandTier(0, 300, 3, 1, 500),
        DemandTier(300, 6000, 10, 10, 0) >>]

\* for tier in app_config.markup_tiers: the position of the first tier with
\* min_cost <= wholesale < max_cost from position i on, 0 when the loop ends.
RECURSIVE ScanMarkupTiers(_, _, _)
ScanMarkupTiers(tiers, i, wholesale) ==
  IF i > Len(tiers) THEN 0
  ELSE IF tiers[i].min_cost <= wholesale /\ wholesale < tiers[i].max_cost THEN i
  ELSE ScanMarkupTiers(tiers, i + 1, wholesale)

\* The scan with the upper end of a bracket taken as part of it.
RECURSIVE ScanMarkupTiers_ClosedBracket(_, _, _)
ScanMarkupTiers_ClosedBracket(tiers, i, wholesale) ==
  IF i > Len(tiers) THEN 0
  ELSE IF tiers[i].min_cost <= wholesale /\ wholesale <= tiers[i].max_cost THEN i
  ELSE ScanMarkupTiers_ClosedBracket(tiers, i + 1, wholesale)

\* estimate_retail_price, in quarters of a dollar, for a table that is not
\* empty.
EstimateRetailPrice_ClosedBracket(wholesale, app_config) ==
  LET tiers == app_config.markup_tiers
      hit == ScanMarkupTiers_ClosedBracket(tiers, 1, wholesale)
  IN  IF hit /= 0 THEN wholesale * tiers[hit].markup_multiplier
      ELSE wholesale * tiers[Len(tiers)].markup_multiplier

EstimateRetailPrice(wholesale, app_config) ==
  LET tiers == app_config.markup_tiers
      hit == ScanMarkupTiers(tiers, 1, wholesale)
  IN  IF hit /= 0 THEN wholesale * tiers[hit].markup_multiplier
      ELSE wholesale * tiers[Len(tiers)].markup_multiplier

\* get_demand_tier: the position of the tier returned, 0 for None.
RECURSIVE ScanDemandTiers(_, _, _)
ScanDemandTiers(tiers, i, price) ==
  IF i > Len(tiers) THEN 0
  ELSE IF tiers[i].min_price <= price /\ price < tiers[i].max_price THEN i
  ELSE ScanDemandTiers(tiers, i + 1, price)

GetDemandTier(price, app_config) == ScanDemandTiers(app_config.demand_tiers, 1, price)

Min2(a, b) == IF b < a THEN b ELSE a
Max2(a, b) == IF b > a THEN b ELSE a

\* estimate_base_demand with the weight compared in grams.
EstimateBaseDemand_WeightInGrams(wholesale, size_cm3, weight_g, app_config) ==
  LET hit == GetDemandTier(wholesale, app_config)
      t == app_config.demand_tiers[hit]
      base == t.base_demand_monthly * t.demand_multiplier * (DemandDen \div MultiplierDen)
      sized == IF size_cm3 > 20000 THEN base \div 2 ELSE base
      weighed == IF weight_g > 20 THEN (sized * 7) \div 10 ELSE sized
  IN  IF hit = 0 THEN FallbackDemand * DemandDen
      ELSE Min2(Max2(DemandDen, weighed), t.max_demand_monthly * DemandDen)

\* estimate_base_demand, in two-hundredths.
EstimateBaseDemand(wholesale, size_cm3, weight_g, app_config) ==
  LET hit == GetDemandTier(wholesale, app_config)
      t == app_config.demand_tiers[hit]
      base == t.base_demand_monthly * t.demand_multiplier * (DemandDen \div MultiplierDen)
      sized == IF size_cm3 > 20000 THEN base \div 2 ELSE base
      weighed == IF weight_g > 20 * GramsPerKg THEN (sized * 7) \div 10 ELSE sized
  IN  IF hit = 0 THEN FallbackDemand * DemandDen
      ELSE Min2(Max2(DemandDen, weighed), t.max_demand_monthly * DemandDen)

AppConfigs ==
  {FromCfgFile(DefaultCfg), FromCfgFile(MisorderedCfg), FromCfgFile(CheapGoodsCfg),
   HandBuiltAppConfig, EmptyAppConfig}

TierPrices ==
  {0, 1, 5, 6, 49, 50, 99, 100, 150, 299, 300, 499, 500, 999, 1000, 2999, 3000,
   4999, 5000, 999998, 999999, 1000000}
\* estimate_retail_price(wholesale, app_config): the value returned, or the
\* IndexError of markup_tiers[-1] on an empty table.
EstimateRetailPriceCall(wholesale, app_config) ==
  /\ tier.pc = "idle"
  /\ tier' = [pc |-> "done", fn |-> "estimate_retail_price", wholesale |-> wholesale,
              size_cm3 |-> 0, weight_g |-> 0, app_config |-> app_config,
              raised |-> IF app_config.markup_tiers = <<>> THEN "IndexError" ELSE "none",
              value |-> IF app_config.markup_tiers = <<>> THEN 0
                        ELSE EstimateRetailPrice(wholesale, app_config)]
  /\ UNCHANGED <<optimizerVars, range, flt, gen, fc, sel>>

\* estimate_base_demand(wholesale, size_cm3, weight_g, app_config)
EstimateBaseDemandCall(wholesale, size_cm3, weight_g, app_config) ==
  /\ tier.pc = "idle"
  /\ tier' = [pc |-> "done", fn |-> "estimate_base_demand", wholesale |-> wholesale,
              size_cm3 |-> size_cm3, weight_g |-> weight_g, app_config |-> app_config,
              raised |-> "none",
              value |-> EstimateBaseDemand(wholesale, size_cm3, weight_g, app_config)]
  /\ UNCHANGED <<optimizerVars, range, flt, gen, fc, sel>>

TierNext ==
  \/ \E wholesale \in TierPrices : \E app_config \in AppConfigs :
       EstimateRetailPriceCall(wholesale, app_config)
  \/ \E wholesale \in TierPrices : \E size_cm3 \in {1000, 20000, 20001} :
     \E weight_g \in {500, 20000, 20001} : \E app_config \in AppConfigs :
       EstimateBaseDemandCall(wholesale, size_cm3, weight_g, app_config)

TierSpec == FilterInit /\ [][TierNext]_vars

(***************************************************************************)
(* generate_all_product_candidates, productcreator.py lines 300-377.  The  *)
(* axes are whole numbers, for which the range generators add and round    *)
(* exactly.  An Optional[int] is <<>> for None and <<n>> for n.            *)
(***************************************************************************)
\* while current <= max: append(round(current, 2)); current += step, for
\* whole numbers and a step > 0.
RECURSIVE WholeRange(_, _, _)
WholeRange(current, max, step) ==
  IF current <= max THEN <<current>> \o WholeRange(current + step, max, step) ELSE <<>>

\* The loop of a range generator never ends: the step adds nothing.
RangeHangs(min, max, step) == min <= max /\ step <= 0

GenerationParams(price, weight, size, freight, max_candidates) ==
  [price_min |-> price[1], price_max |-> price[2], price_step |-> price[3],
   weight_min |-> weight[1], weight_max |-> weight[2], weight_step |-> weight[3],
   size_min |-> size[1], size_max |-> size[2], size_step |-> size[3],
   freight_min |-> freight[1], freight_max |-> freight[2], freight_step |-> freight[3],
   density_min |-> 1, density_max |-> 1000,
   max_candidates |-> max_candidates]

\* <<price axis, weight axis, size axis, freight axis>>, each <<min, max, step>>.
GenerationAxes ==
  { << <<10, 20, 10>>, <<500, 500, 1>>, <<1000, 1000, 1>>, <<1, 2, 1>> >>,
    << <<50, 150, 100>>, <<500, 20500, 20000>>, <<1000, 21000, 20000>>, <<1, 1, 1>> >>,
    << <<20, 10, 10>>, <<500, 500, 1>>, <<1000, 1000, 1>>, <<1, 2, 1>> >>,
    << <<10, 20, 10>>, <<500, 500, 0>>, <<1000, 1000, 1>>, <<1, 2, 1>> >> }

\* if params.max_candidates: None and 0 are both false.
Truthy(optional) == optional /= <<>> /\ optional[1] /= 0

\* key=lambda c: (c.retail_price - c.wholesale_price) * c.base_demand, held
\* times MarkupDen * DemandDen.
ProfitPotential(c) == (c.retail_price - MarkupDen * c.wholesale_price) * c.base_demand

\* list.sort(key=..., reverse=True): descending, and stable, so that elements
\* of equal key keep their order.
RECURSIVE SortByProfitPotential(_)
SortByProfitPotential(cands) ==
  IF cands = <<>> THEN <<>>
  ELSE LET n == Len(cands)
           sorted == SortByProfitPotential(SubSeq(cands, 1, n - 1))
           c == cands[n]
           ahead == {i \in 1..Len(sorted) : ProfitPotential(sorted[i]) >= ProfitPotential(c)}
           k == Cardinality(ahead)
       IN  SubSeq(sorted, 1, k) \o <<c>> \o SubSeq(sorted, k + 1, Len(sorted))

\* lines 365-372: sort and cut, only when there are more candidates than the
\* cap.
ApplyMaxCandidates(cands, max_candidates) ==
  IF Truthy(max_candidates) /\ Len(cands) > max_candidates[1]
  THEN SubSeq(SortByProfitPotential(cands), 1, max_candidates[1])
  ELSE cands

\* The body of the innermost loop for one combination without its filter.
ProductCandidate(price, weight, size, shipping_mult, app_config) ==
  [wholesale_price |-> price,
   retail_price |-> EstimateRetailPrice(price, app_config),
   weight_g |-> weight,
   size_cm3 |-> size,
   shipping_cost_multiplier |-> shipping_mult,
   base_demand |-> EstimateBaseDemand(price, size, weight, app_config)]

\* The call: lines 308-327 build the four lists, or never return.
GenerateAllProductCandidates(params, app_config) ==
  /\ gen.pc = "idle"
  /\ gen' =
       IF \/ RangeHangs(params.price_min, params.price_max, params.price_step)
          \/ RangeHangs(params.weight_min, params.weight_max, params.weight_step)
          \/ RangeHangs(params.size_min, params.size_max, params.size_step)
          \/ RangeHangs(params.freight_min, params.freight_max, params.freight_step)
       THEN [pc |-> "hung", params |-> params, app_config |-> app_config]
       ELSE [pc |-> "loop", params |-> params, app_config |-> app_config,
             prices |-> WholeRange(params.price_min, params.price_max, params.price_step),
             weights |-> WholeRange(params.weight_min, params.weight_max, params.weight_step),
             sizes |-> WholeRange(params.size_min, params.size_max, params.size_step),
             shipping_costs |->
               WholeRange(params.freight_min, params.freight_max, params.freight_step),
             at |-> <<1, 1, 1, 1>>, seen |-> <<>>, candidates |-> <<>>]
  /\ UNCHANGED <<optimizerVars, range, flt, tier, fc, sel>>

\* The four nested loops have a combination left.
LoopHasNext ==
  /\ gen.at[1] <= Len(gen.prices)
  /\ gen.weights /= <<>>
  /\ gen.sizes /= <<>>
  /\ gen.shipping_costs /= <<>>

\* The positions of the next combination: shipping innermost, price outermost.
NextCombination(at) ==
  IF at[4] < Len(gen.shipping_costs) THEN <<at[1], at[2], at[3], at[4] + 1>>
  ELSE IF at[3] < Len(gen.sizes) THEN <<at[1], at[2], at[3] + 1, 1>>
  ELSE IF at[2] < Len(gen.weights) THEN <<at[1], at[2] + 1, 1, 1>>
  ELSE <<at[1] + 1, 1, 1, 1>>

\* One pass of the innermost loop body, lines 346-363; `seen` keeps the
\* combinations in the order the loops reach them.
GenerateCombination ==
  /\ gen.pc = "loop"
  /\ LoopHasNext
  /\ LET price == gen.prices[gen.at[1]]
         weight == gen.weights[gen.at[2]]
         size == gen.sizes[gen.at[3]]
         shipping_mult == gen.shipping_costs[gen.at[4]]
         seen == Append(gen.seen, <<price, weight, size, shipping_mult>>)
     IN  IF ~IsRealisticCombination(price, weight, size, gen.params.density_min,
                                    gen.params.density_max)
         THEN gen' = [gen EXCEPT !.at = NextCombination(@), !.seen = seen]
         ELSE IF gen.app_config.markup_tiers = <<>>
         THEN gen' = [pc |-> "raised", params |-> gen.params,
                      app_config |-> gen.app_config, raised |-> "IndexError"]
         ELSE gen' = [gen EXCEPT
                        !.at = NextCombination(@),
                        !.seen = seen,
                        !.candidates =
                           Append(@, ProductCandidate(price, weight, size, shipping_mult,
                                                      gen.app_config))]
  /\ UNCHANGED <<optimizerVars, range, flt, tier, fc, sel>>

\* The loops are over: lines 365-377.
GenerateReturn ==
  /\ gen.pc = "loop"
  /\ ~LoopHasNext
  /\ gen' = [pc |-> "done", params |-> gen.params, app_config |-> gen.app_config,
             prices |-> gen.prices, weights |-> gen.weights, sizes |-> gen.sizes,
             shipping_costs |-> gen.shipping_costs,
             seen |-> gen.seen, kept |-> gen.candidates,
             candidates |-> ApplyMaxCandidates(gen.candidates, gen.params.max_candidates)]
  /\ UNCHANGED <<optimizerVars, range, flt, tier, fc, sel>>

GenerateNext ==
  \* max_candidates: None, 0 and caps below, at and above the number of
  \* candidates the axes give.
  \/ \E axes \in GenerationAxes : \E cap \in {<<>>, <<0>>, <<1>>, <<3>>, <<4>>, <<5>>} :
     \E app_config \in {FromCfgFile(DefaultCfg), FromCfgFile(MisorderedCfg), EmptyAppConfig} :
       GenerateAllProductCandidates(
         GenerationParams(axes[1], axes[2], axes[3], axes[4], cap), app_config)
  \/ GenerateCombination
  \/ GenerateReturn

GenerateSpec == FilterInit /\ [][GenerateNext]_vars

(***************************************************************************)
(* DemandForecast.forecast_month (spcplan.py, lines 44-48) and the upper   *)
(* bound _create_variables takes from it (lines 152-156), for any month,   *)
(* with a global demand_multiplier of 1.                                   *)
(***************************************************************************)
DemandForecasts ==
  { [base_demand |-> base, seasonal_factors |-> factors,
     trend_factor |-> trend, demand_buffer |-> buffer]
    : base \in {0, 3, 10},
      factors \in {DefaultSeasonalFactors, NoSeasonalFactors, [m \in 1..13 |-> 10]},
      trend \in {<<1, 1>>, <<2, 1>>, <<1, 2>>, <<51, 50>>},
      buffer \in {<<1, 1>>, <<3, 2>>, <<2, 1>>} }

\* The months asked for: through a horizon longer than a year; the trend of
\* 1.02 a month through month 4, to stay within the integers of the model.
ForecastMonths(df) == IF df.trend_factor = <<51, 50>> THEN 1..4 ELSE 1..14

ForecastMonthCall(df, month) ==
  /\ fc.pc = "idle"
  /\ fc' = [pc |-> "done", df |-> df, month |-> month,
            forecast |-> ForecastMonth(df, month),
            max_qty |-> MaxQty([demand_forecast |-> df], month)]
  /\ UNCHANGED <<optimizerVars, range, flt, tier, gen, sel>>

ForecastNext ==
  \E df \in DemandForecasts : \E month \in ForecastMonths(df) : ForecastMonthCall(df, month)

ForecastSpec == FilterInit /\ [][ForecastNext]_vars

(***************************************************************************)
(* optimize_batch, batch_optimizer.py lines 52-113: candidates of the      *)
(* generator become products and go to one optimize() call.  The tables    *)
(* are those of a shop of cheap goods, which keeps the money of the model  *)
(* small: 5 dollars lies in the tier capped at 50 a month, 10 dollars in   *)
(* the tier capped at 20.                                                  *)
(***************************************************************************)
BatchAppConfig == FromCfgFile(CheapGoodsCfg)

\* candidate_to_product: the retail price and the demand go back to whole
\* units; both are whole for the candidates below.
CandidateToProduct(candidate, product_id, seasonal_factors) ==
  [id |-> ProductId(product_id),
   name |-> <<"Product_", product_id>>,
   wholesale_price |-> candidate.wholesale_price,
   retail_price |-> candidate.retail_price \div MarkupDen,
   size_cm3 |-> candidate.size_cm3,
   weight_g |-> candidate.weight_g,
   demand_forecast |->
     [base_demand |-> candidate.base_demand \div DemandDen,
      seasonal_factors |-> seasonal_factors,
      trend_factor |-> <<51, 50>>, demand_buffer |-> <<3, 2>>]]

\* Candidate lists as generate_all_product_candidates returns them.
BatchCandidateLists ==
  { <<ProductCandidate(10, 500, 1000, 1, BatchAppConfig)>>,
    <<ProductCandidate(5, 500, 1000, 1, BatchAppConfig)>> }

\* products = [candidate_to_product(c, idx, seasonal_factors) ...];
\* optimizer.optimize(products)
OptimizeBatch(candidates) ==
  Optimize([idx \in 1..Len(candidates) |->
              CandidateToProduct(candidates[idx], idx, DefaultSeasonalFactors)])

BatchNext ==
  \/ \E candidates \in BatchCandidateLists : OptimizeBatch(candidates)
  \/ CreateVariables
  \/ CreateObjective
  \/ CreateConstraints
  \/ SolveInvoke
  \/ SolveTick
  \/ SolveStop
  \/ SolveReturn
  \/ ExtractResults
  \/ \E e \in Raisable : Raise(e)

BatchSpec == EndToEndInit /\ [][BatchNext]_vars

(***************************************************************************)
(* extract_selected_products, batch_optimizer.py lines 185-227.  A dict is *)
(* the sequence of its items in insertion order.                           *)
(***************************************************************************)
ProductTotalsItem(idx, name, quantity, cost, revenue) ==
  [id |-> ProductId(idx), name |-> name, total_quantity |-> quantity,
   total_cost |-> cost, total_revenue |-> revenue, total_margin |-> revenue - cost]

\* Totals of three products, two of them with the same margin.
ProductTotalsPool ==
  { ProductTotalsItem(1, "gadget", 2, 20, 40),
    ProductTotalsItem(2, "crate", 1, 10, 60),
    ProductTotalsItem(3, "brick", 4, 60, 80) }

\* product_totals: any of the pool, in any order, each product once.
ProductTotalsLists ==
  UNION { { f \in [1..n -> ProductTotalsPool] : \A i, j \in 1..n : f[i] = f[j] => i = j }
          : n \in 0..3 }

ReducerResults ==
  { [status |-> status, product_totals |-> totals]
    : status \in {"OPTIMAL", "FEASIBLE", "INFEASIBLE", "ERROR"},
      totals \in ProductTotalsLists }

\* sorted(product_totals.items(), key=lambda x: x[1]['total_margin'],
\* reverse=True): descending and stable.
RECURSIVE SortByTotalMargin(_)
SortByTotalMargin(items) ==
  IF items = <<>> THEN <<>>
  ELSE LET n == Len(items)
           sorted == SortByTotalMargin(SubSeq(items, 1, n - 1))
           x == items[n]
           ahead == {i \in 1..Len(sorted) : sorted[i].total_margin >= x.total_margin}
           k == Cardinality(ahead)
       IN  SubSeq(sorted, 1, k) \o <<x>> \o SubSeq(sorted, k + 1, Len(sorted))

\* The dict built for one item, lines 218-225.
SelectedEntry(item) ==
  [id |-> item.id, name |-> item.name,
   total_quantity_ordered |-> item.total_quantity,
   total_cost |-> item.total_cost, total_revenue |-> item.total_revenue,
   total_margin |-> item.total_margin]

ExtractSelectedProducts(results, top_n) ==
  IF results.status \notin {"OPTIMAL", "FEASIBLE"} THEN <<>>
  ELSE LET sorted_products == SortByTotalMargin(results.product_totals)
           limited == IF Truthy(top_n)
                      THEN SubSeq(sorted_products, 1, Min2(top_n[1], Len(sorted_products)))
                      ELSE sorted_products
       IN  [i \in 1..Len(limited) |-> SelectedEntry(limited[i])]

ExtractSelectedProductsCall(results, top_n) ==
  /\ sel.pc = "idle"
  /\ sel' = [pc |-> "done", results |-> results, top_n |-> top_n,
             selected |-> ExtractSelectedProducts(results, top_n)]
  /\ UNCHANGED <<optimizerVars, range, flt, tier, gen, fc>>

ReducerNext ==
  \* top_n: None, 0, and limits below and above the number of products.
  \E results \in ReducerResults : \E top_n \in {<<>>, <<0>>, <<1>>, <<2>>, <<5>>} :
    ExtractSelectedProductsCall(results, top_n)

ReducerSpec == FilterInit /\ [][ReducerNext]_vars

(***************************************************************************)
(* Properties.                                                             *)
(***************************************************************************)
RECURSIVE SumFunction(_)
SumFunction(f) ==
  IF DOMAIN f = {} THEN 0
  ELSE LET e == CHOOSE e \in DOMAIN f : TRUE
       IN  f[e] + SumFunction([d \in DOMAIN f \ {e} |-> f[d]])


Succeeded == result.status \in {"OPTIMAL", "FEASIBLE"}

\* What the orders of one month, as reported, add up to.
Reported(month, field) ==
  LET orders == result.purchase_orders[month]
      Value(id) == orders[id][field]
  IN  SumFunction([k \in DOMAIN orders |-> Value(k)])

ReportedSpend(month) ==
  LET orders == result.purchase_orders[month]
      Cost(id) == orders[id].unit_wholesale * orders[id].quantity
  IN  SumFunction([k \in DOMAIN orders |-> Cost(k)])

ReportedVolumeOverHorizon ==
  LET Volume(m) == Reported(m, "volume_m3") IN SumFunction([m \in Months |-> Volume(m)])

\* C1: in every OPTIMAL or FEASIBLE result, every month's orders cost
\* (unit_wholesale x quantity, summed) at most budget_per_month.
C1_BudgetPerMonth ==
  Succeeded => \A m \in Months : ReportedSpend(m) <= config.budget_per_month

\* A result that spends a month's whole budget on two products.
C1_Witness ==
  /\ Succeeded
  /\ \E m \in Months :
       /\ ReportedSpend(m) = config.budget_per_month
       /\ Cardinality(DOMAIN result.purchase_orders[m]) = 2

\* C2: in every OPTIMAL or FEASIBLE result, the volume ordered over the whole
\* horizon, all months and products together, is at most warehouse_capacity_m3.
C2_WarehouseOverHorizon ==
  Succeeded => ReportedVolumeOverHorizon <= config.warehouse_capacity_m3 * Cm3PerM3

\* A two-month result that fills the warehouse exactly, ordering in month 2.
C2_Witness ==
  /\ Succeeded
  /\ config.planning_months >= 2
  /\ ReportedVolumeOverHorizon = config.warehouse_capacity_m3 * Cm3PerM3
  /\ Reported(2, "volume_m3") > 0

\* C3: in every OPTIMAL or FEASIBLE result, each month's weight is at most
\* shipping.max_weight_kg and each month's volume at most shipping.max_volume_m3.
C3_ShippingPerMonth ==
  Succeeded =>
    \A m \in Months :
      /\ Reported(m, "weight_kg") <= config.shipping.max_weight_kg * GramsPerKg
      /\ Reported(m, "volume_m3") <= config.shipping.max_volume_m3 * Cm3PerM3

\* A result with a month at the weight limit and at the volume limit, and
\* orders in another month as well.
C3_Witness ==
  /\ Succeeded
  /\ \E m \in Months :
       /\ Reported(m, "weight_kg") = config.shipping.max_weight_kg * GramsPerKg
       /\ Reported(m, "volume_m3") = config.shipping.max_volume_m3 * Cm3PerM3
       /\ \E m2 \in Months \ {m} : Reported(m2, "weight_kg") > 0

\* floor(forecast_month(month) x demand_multiplier x demand_buffer), with
\* forecast_month = base_demand x seasonal(month) x trend_factor^(month - 1).
ClaimedBoundFraction(p, month) ==
  LET df == p.demand_forecast
      seasonal == IF month \in 1..12 THEN df.seasonal_factors[month] ELSE SeasonalDen
  IN  << df.base_demand * seasonal * Pow(df.trend_factor[1], month - 1)
           * config.demand_multiplier[1] * df.demand_buffer[1],
         SeasonalDen * Pow(df.trend_factor[2], month - 1)
           * config.demand_multiplier[2] * df.demand_buffer[2] >>

ClaimedUpperBound(p, month) ==
  ClaimedBoundFraction(p, month)[1] \div ClaimedBoundFraction(p, month)[2]

DistinctIds ==
  \A j, k \in 1..Len(products) : products[j].id = products[k].id => j = k

VariablesBuilt ==
  pc \in {"create_objective", "create_constraints", "solve", "solving", "solve_return",
          "extract_results"}

\* C4: for products with distinct ids, _create_variables leaves exactly one
\* solver variable per (product, month), month in 1..planning_months, with
\* bounds 0 and floor(forecast x demand_multiplier x demand_buffer); and every
\* quantity of an OPTIMAL or FEASIBLE result lies within those bounds.
C4_OneBoundedVariablePerPair ==
  DistinctIds =>
    /\ VariablesBuilt =>
         /\ Len(solver.vars) = Len(products) * config.planning_months
         /\ DOMAIN variables = {products[k].id : k \in 1..Len(products)}
         /\ \A k \in 1..Len(products) :
              /\ DOMAIN variables[products[k].id] = Months
              /\ \A m \in Months :
                   LET i == variables[products[k].id][m]
                   IN  /\ i \in 1..Len(solver.vars)
                       /\ solver.vars[i].name = <<products[k].id, m>>
                       /\ solver.vars[i].lb = 0
                       /\ solver.vars[i].ub = ClaimedUpperBound(products[k], m)
         /\ \A i, j \in 1..Len(solver.vars) :
              solver.vars[i].name = solver.vars[j].name => i = j
    /\ Succeeded =>
         /\ DOMAIN result.purchase_orders = Months
         /\ \A m \in Months : \A k \in 1..Len(products) :
              products[k].id \in DOMAIN result.purchase_orders[m] =>
                LET q == result.purchase_orders[m][products[k].id].quantity
                IN  0 <= q /\ q <= ClaimedUpperBound(products[k], m)

\* A result that orders a product up to a bound that floor rounded down, in
\* the last month of a horizon of two or more.
C4_Witness ==
  /\ Succeeded
  /\ config.planning_months >= 2
  /\ \E k \in 1..Len(products) :
       LET m == config.planning_months
           p == products[k]
       IN  /\ p.id \in DOMAIN result.purchase_orders[m]
           /\ result.purchase_orders[m][p.id].quantity = ClaimedUpperBound(p, m)
           /\ ClaimedBoundFraction(p, m)[1] % ClaimedBoundFraction(p, m)[2] /= 0

\* A plan x holds the quantity of product position k in month m at PlanAt(k, m).
PlanAt(k, m) == (k - 1) * config.planning_months + m

\* The sum over the products of per-unit amount unit[k] times the month's quantity.
PlanMonthSum(x, m, unit) ==
  SumSeq([k \in 1..Len(products) |-> unit[k] * x[PlanAt(k, m)]])

\* The net profit of plan x (times Cm3PerM3), as claimed.
ClaimedProfit(x) ==
  LET MarginOf == [k \in 1..Len(products) |-> Margin(products[k])]
      WeightOf == [k \in 1..Len(products) |-> products[k].weight_g]
      VolumeOf == [k \in 1..Len(products) |-> products[k].size_cm3]
      WholesaleOf == [k \in 1..Len(products) |-> products[k].wholesale_price]
      OfMonth(m) ==
        Cm3PerM3 * PlanMonthSum(x, m, MarginOf)
          - config.shipping.cost_per_kg * PlanMonthSum(x, m, WeightOf)
              * (Cm3PerM3 \div GramsPerKg)
          - config.shipping.cost_per_m3 * PlanMonthSum(x, m, VolumeOf)
          - (IF config.shipping.crosses_border
             THEN config.shipping.customs_duty_rate * PlanMonthSum(x, m, WholesaleOf)
             ELSE 0)
  IN  SumSeq([m \in Months |-> OfMonth(m)])

\* Plan x is within the budget, warehouse and shipping limits, as claimed.
ClaimedFeasible(x) ==
  LET WeightOf == [k \in 1..Len(products) |-> products[k].weight_g]
      VolumeOf == [k \in 1..Len(products) |-> products[k].size_cm3]
      WholesaleOf == [k \in 1..Len(products) |-> products[k].wholesale_price]
  IN  /\ \A m \in Months :
           /\ PlanMonthSum(x, m, WholesaleOf) <= config.budget_per_month
           /\ PlanMonthSum(x, m, WeightOf) <= config.shipping.max_weight_kg * GramsPerKg
           /\ PlanMonthSum(x, m, VolumeOf) <= config.shipping.max_volume_m3 * Cm3PerM3
      /\ SumSeq([m \in Months |-> PlanMonthSum(x, m, VolumeOf)])
           <= config.warehouse_capacity_m3 * Cm3PerM3

\* The plans within the claimed variable bounds of the first i (product, month) pairs.
RECURSIVE ClaimedPlans(_)
ClaimedPlans(i) ==
  IF i = 0 THEN {<<>>}
  ELSE LET k == ((i - 1) \div config.planning_months) + 1
           m == ((i - 1) % config.planning_months) + 1
       IN  {Append(x, v) : x \in ClaimedPlans(i - 1),
                           v \in 0 .. ClaimedUpperBound(products[k], m)}

ClaimedMaximum ==
  LET plans == ClaimedPlans(Len(products) * config.planning_months)
  IN  SetMax({ClaimedProfit(x) : x \in {y \in plans : ClaimedFeasible(y)}})

\* C5: an OPTIMAL result's objective_value is the maximum, over the integer
\* quantities within the variable bounds and the budget, warehouse and
\* shipping limits, of margin minus weight shipping, volume shipping and
\* (only when crossing a border) customs duty, summed over the months.
C5_ObjectiveIsMaximumNetProfit ==
  result.status = "OPTIMAL" => result.objective_value = ClaimedMaximum

\* An optimum across a border that orders something and leaves out a product
\* whose unit profit is negative.
C5_Witness ==
  /\ result.status = "OPTIMAL"
  /\ config.shipping.crosses_border
  /\ result.objective_value > 0
  /\ \E k \in 1..Len(products) :
       /\ products[k].id \notin DOMAIN result.product_totals
       /\ ClaimedUpperBound(products[k], 1) > 0
\* What is raised on a caller's interruption: not an Exception in Python.
Interruptions == {"KeyboardInterrupt"}

\* C6: an exception raised while optimize() builds the model, solves or
\* extracts results ends the call with an ERROR result carrying a message and
\* does not escape; only a caller's interruption escapes, and it leaves no
\* result.
C6_ExceptionsBecomeErrorResults ==
  /\ (raised /= "none" /\ raised \notin Interruptions) =>
       /\ ~escaped
       /\ pc = "idle"
       /\ result.status = "ERROR"
       /\ "message" \in DOMAIN result
  /\ (raised \in Interruptions) => (escaped /\ result = NoResult)
  /\ escaped => raised \in Interruptions

\* A MemoryError raised while extracting the results of a finished solve.
C6_Witness ==
  /\ raised = "MemoryError"
  /\ solver /= None
  /\ solver.status = "OPTIMAL"
  /\ result.status = "ERROR"

\* C7: when the configured solver engine is unavailable, optimize() returns
\* an ERROR result with a message, raises nothing, and builds no variable,
\* objective or constraint.
C7_UnavailableSolverIsErrorResult ==
  config.solver_type \notin AvailableSolvers =>
    /\ pc = "idle"
    /\ solver = None
    /\ variables = <<>>
    /\ raised = "none" /\ ~escaped
    /\ products /= <<>> => (result.status = "ERROR" /\ "message" \in DOMAIN result)

\* optimize() has returned for an unavailable engine.
C7_Witness ==
  /\ config.solver_type \notin AvailableSolvers
  /\ products /= <<>>
  /\ pc = "idle"
  /\ result.status = "ERROR"

\* C8: while Solve() runs, the solver holds solver_time_limit_seconds as its
\* time limit, and the solve has not run longer than that.
C8_SolveBoundedByTimeLimit ==
  pc = "solving" =>
    /\ solver.time_limit = config.solver_time_limit_seconds
    /\ elapsed <= config.solver_time_limit_seconds

\* The result of the last call came out of _extract_results.
Extracted == pc = "idle" /\ "objective_value" \in DOMAIN result

\* C9: the reported status is OPTIMAL iff the solver said optimal, FEASIBLE
\* iff it said feasible, INFEASIBLE only if it said infeasible, and ERROR for
\* every other solver outcome.
C9_StatusClassification ==
  Extracted =>
    /\ result.status \in {"OPTIMAL", "FEASIBLE", "INFEASIBLE", "ERROR"}
    /\ result.status = "OPTIMAL" <=> solver.status = "OPTIMAL"
    /\ result.status = "FEASIBLE" <=> solver.status = "FEASIBLE"
    /\ result.status = "INFEASIBLE" => solver.status = "INFEASIBLE"
    /\ solver.status \in NoSolutionStatuses => result.status = "ERROR"

ResultTables == {"purchase_orders", "monthly_breakdown", "product_totals"}

\* C10: purchase_orders, monthly_breakdown and product_totals hold entries
\* only in an OPTIMAL or FEASIBLE result; an INFEASIBLE result has
\* objective_value 0 and all three empty.
C10_PopulatedOnlyOnSuccess ==
  /\ ~Succeeded =>
       \A t \in ResultTables : t \in DOMAIN result => result[t] = <<>>
  /\ result.status = "INFEASIBLE" =>
       /\ result.objective_value = 0
       /\ \A t \in ResultTables : t \in DOMAIN result /\ result[t] = <<>>

\* An INFEASIBLE result for a model the solver found infeasible.
C10_Witness ==
  /\ result.status = "INFEASIBLE"
  /\ solver.status = "INFEASIBLE"
  /\ config.planning_months >= 2

\* The quantity a result records for product position k in a month: that of
\* its purchase order, and 0 when the month has no order for it.
RecordedQuantity(k, month) ==
  IF products[k].id \in DOMAIN result.purchase_orders[month]
  THEN result.purchase_orders[month][products[k].id].quantity
  ELSE 0

\* The integer nearest to the float that solution_value() returned: the
\* integer the solver found, since the float is at most a tolerance away.
NearestInteger(k, month) == solver.solution[Var(products[k], month)]

\* C11: in an OPTIMAL or FEASIBLE result, the quantity recorded for every
\* product and month is the solver's value rounded to the nearest integer; a
\* value just below n is recorded as n.
C11_RecordsNearestInteger ==
  (Extracted /\ Succeeded) =>
    \A k \in 1..Len(products) : \A m \in Months :
      RecordedQuantity(k, m) = NearestInteger(k, m)

\* C12: in an OPTIMAL or FEASIBLE result there is a breakdown entry for every
\* month 1..planning_months, and each entry follows from that month's purchase
\* orders: cost, revenue, weight and volume are their sums, the shipping costs
\* are the rates times the weight and the volume, customs duty is the rate
\* times the cost when the shipment crosses a border and 0 otherwise, net
\* profit is revenue minus cost, shipping and duty, and items_ordered counts
\* the orders.
C12_BreakdownFromRealizedOrders ==
  (Extracted /\ Succeeded) =>
    /\ DOMAIN result.monthly_breakdown = Months
    /\ \A m \in Months :
         LET b == result.monthly_breakdown[m]
         IN  /\ b.product_cost = Reported(m, "total_cost")
             /\ b.product_revenue = Reported(m, "total_revenue")
             /\ b.weight_kg = Reported(m, "weight_kg")
             /\ b.volume_m3 = Reported(m, "volume_m3")
             /\ b.weight_shipping
                  = config.shipping.cost_per_kg * b.weight_kg * (Cm3PerM3 \div GramsPerKg)
             /\ b.volume_shipping = config.shipping.cost_per_m3 * b.volume_m3
             /\ b.customs_duty
                  = (IF config.shipping.crosses_border
                     THEN config.shipping.customs_duty_rate * b.product_cost ELSE 0)
             /\ b.net_profit
                  = Cm3PerM3 * b.product_revenue - Cm3PerM3 * b.product_cost
                      - b.weight_shipping - b.volume_shipping - b.customs_duty
             /\ b.items_ordered = Cardinality(DOMAIN result.purchase_orders[m])

\* A result across a border with two orders in one month, none in another,
\* and a quantity read back below the value the solver holds.
C12_Witness ==
  /\ Extracted /\ Succeeded
  /\ config.shipping.crosses_border
  /\ ~exact
  /\ \E m1, m2 \in Months :
       /\ result.monthly_breakdown[m1].items_ordered = 2
       /\ result.monthly_breakdown[m1].customs_duty > 0
       /\ result.monthly_breakdown[m2].items_ordered = 0
       /\ result.monthly_breakdown[m2].net_profit = 0

\* The sum over the months of a field of the orders recorded for position k.
RecordedTotal(k, field) ==
  SumSeq([m \in Months |->
            IF products[k].id \in DOMAIN result.purchase_orders[m]
            THEN result.purchase_orders[m][products[k].id][field] ELSE 0])

\* C13: in an OPTIMAL or FEASIBLE result for products with distinct ids, a
\* month's purchase orders hold a product iff the quantity read for it that
\* month is > 0, product_totals holds a product iff its quantities over all
\* months sum to more than 0, and its totals are the sums of its month
\* entries with total_margin = total_revenue - total_cost.
C13_OrdersAndTotalsOfPositiveQuantities ==
  (Extracted /\ Succeeded /\ DistinctIds) =>
    LET ids == {products[k].id : k \in 1..Len(products)}
    IN  /\ \A m \in Months :
             /\ DOMAIN result.purchase_orders[m] \subseteq ids
             /\ \A k \in 1..Len(products) :
                  /\ products[k].id \in DOMAIN result.purchase_orders[m]
                       <=> readback[k][m] > 0
                  /\ RecordedQuantity(k, m) = (IF readback[k][m] > 0 THEN readback[k][m] ELSE 0)
        /\ DOMAIN result.product_totals \subseteq ids
        /\ \A k \in 1..Len(products) :
             /\ products[k].id \in DOMAIN result.product_totals
                  <=> SumSeq([m \in Months |-> readback[k][m]]) > 0
             /\ products[k].id \in DOMAIN result.product_totals =>
                  LET t == result.product_totals[products[k].id]
                  IN  /\ t.total_quantity = RecordedTotal(k, "quantity")
                      /\ t.total_cost = RecordedTotal(k, "total_cost")
                      /\ t.total_revenue = RecordedTotal(k, "total_revenue")
                      /\ t.total_margin = t.total_revenue - t.total_cost

\* A result in which one product is ordered in two months, and another in
\* one month only or not at all.
C13_Witness ==
  /\ Extracted /\ Succeeded
  /\ config.planning_months >= 2
  /\ \E j, k \in 1..Len(products) :
       /\ products[j].id \in DOMAIN result.purchase_orders[1]
       /\ products[j].id \in DOMAIN result.purchase_orders[2]
       /\ result.product_totals[products[j].id].total_quantity >= 2
       /\ products[k].id \notin DOMAIN result.purchase_orders[2]

\* What a new optimizer instance builds for the products and the
\* configuration of the call: <<solver variables, variable index>>.
BuiltByNewInstance == CreateVariablesFrom(1, <<>>, <<>>)

ObjectiveBuilt ==
  pc \in {"create_constraints", "solve", "solving", "solve_return", "extract_results"}

ConstraintsBuilt == pc \in {"solve", "solving", "solve_return", "extract_results"}

\* C14: a call depends on its products, its configuration and the solver's
\* answers only, so that equal inputs and an equal solver give equal results.
\* It starts with a solver that holds nothing; the variables, the objective
\* and the constraints it hands to the solver are those a new instance builds,
\* with no key left from an earlier call; and its result is the extraction of
\* the solver's status and of the values read back.
C14_CallsKeepNoState ==
  /\ pc = "create_variables" =>
       solver.vars = <<>> /\ solver.objective = <<>> /\ solver.constraints = <<>>
  /\ (VariablesBuilt \/ Extracted) =>
       /\ solver.vars = BuiltByNewInstance[1]
       /\ variables = BuiltByNewInstance[2]
  /\ (ObjectiveBuilt \/ Extracted) =>
       solver.objective
         = Coefficients(ConcatMonths([m \in Months |-> ObjectiveTermsOfMonth(m)], 1),
                        Len(BuiltByNewInstance[1]))
  /\ (ConstraintsBuilt \/ Extracted) =>
       solver.constraints
         = BudgetConstraints \o WarehouseConstraints
             \o ShippingWeightConstraints \o ShippingVolumeConstraints
  /\ Extracted => result = ExtractedResults(solver.status, readback)

\* A call that returned orders although self.variables still held, when it
\* began, a key of an earlier call with a longer product list.
C14_Witness ==
  /\ Extracted /\ Succeeded
  /\ stale /= {}
  /\ \E m \in Months : result.purchase_orders[m] /= <<>>

\* optimize() has returned a result to its caller.
Returned == pc = "idle" /\ result /= NoResult

\* C17: a call with planning_months < 1 fails closed: what it returns is not
\* an OPTIMAL or FEASIBLE result.
C17_EmptyHorizonFailsClosed ==
  (config.planning_months < 1 /\ Returned) => ~Succeeded

NoOrders == \A m \in Months : result.purchase_orders[m] = <<>>

\* C15 as stated: with budget_per_month = 0, whatever the product list, a
\* solve that ends optimal gives status OPTIMAL, objective_value 0 and no
\* quantity above 0.
C15_ZeroBudgetOrdersNothing_AnyProducts ==
  (config.budget_per_month = 0 /\ Extracted /\ solver.status = "OPTIMAL") =>
    /\ result.status = "OPTIMAL"
    /\ result.objective_value = 0
    /\ NoOrders

AllCostSomething == \A k \in 1..Len(products) : products[k].wholesale_price > 0

\* C15: with budget_per_month = 0 and products that all have a wholesale
\* price above 0, the solver never finds the model infeasible, a solve that
\* ends optimal gives status OPTIMAL, and every OPTIMAL or FEASIBLE result has
\* objective_value 0 and no quantity above 0.
C15_ZeroBudgetOrdersNothing ==
  (config.budget_per_month = 0 /\ AllCostSomething /\ Extracted) =>
    /\ solver.status /= "INFEASIBLE"
    /\ solver.status = "OPTIMAL" => result.status = "OPTIMAL"
    /\ Succeeded =>
         /\ result.objective_value = 0
         /\ NoOrders
         /\ result.product_totals = <<>>
         /\ \A i \in 1..Len(solver.solution) : solver.solution[i] = 0

\* An OPTIMAL result without orders over two months, for a product that
\* demand would let the optimizer order.
C15_Witness ==
  /\ config.budget_per_month = 0 /\ AllCostSomething /\ Extracted
  /\ result.status = "OPTIMAL"
  /\ config.planning_months >= 2
  /\ NoOrders
  /\ \A i \in 1..Len(solver.vars) : solver.vars[i].ub > 0

\* The seasonal factor the product's forecast has for month 1 is 1.0.
FlatFirstMonth ==
  LET factors == products[1].demand_forecast.seasonal_factors
  IN  1 \in DOMAIN factors => factors[1] = SeasonalDen

\* An OPTIMAL result of the scenario: 100 units at the solver, objective 895.
EndToEndOptimum ==
  (Extracted /\ solver.status = "OPTIMAL") =>
    /\ result.status = "OPTIMAL"
    /\ solver.solution = <<100>>
    /\ result.objective_value = 895 * Cm3PerM3

\* C16 as stated: in the scenario the month-1 variable has upper bound 150,
\* and an optimal solve gives quantity 100 and objective_value 895.
C16_EndToEnd_Bound150 ==
  /\ VariablesBuilt => solver.vars = <<[name |-> <<ProductId(1), 1>>, lb |-> 0, ub |-> 150]>>
  /\ EndToEndOptimum
  /\ (Extracted /\ solver.status = "OPTIMAL") => RecordedQuantity(1, 1) = 100

\* C16: in the scenario the month-1 variable has upper bound 150 when the
\* product's seasonal factor for month 1 is 1.0 and 120 with the default
\* factors (0.8 for month 1); either way an optimal solve holds 100 units,
\* objective_value is 895, and the recorded quantity is 100 when the value is
\* read back as an exact integer and never anything but 100 or 99.
C16_EndToEnd ==
  /\ VariablesBuilt =>
       solver.vars = <<[name |-> <<ProductId(1), 1>>, lb |-> 0,
                        ub |-> IF FlatFirstMonth THEN 150 ELSE 120]>>
  /\ EndToEndOptimum
  /\ (Extracted /\ solver.status = "OPTIMAL") =>
       /\ RecordedQuantity(1, 1) \in {99, 100}
       /\ exact => RecordedQuantity(1, 1) = 100

\* The scenario solved to optimality with seasonal factor 1.0 and exact reads.
C16_Witness ==
  /\ Extracted /\ result.status = "OPTIMAL"
  /\ FlatFirstMonth
  /\ exact
  /\ result.purchase_orders[1][ProductId(1)].quantity = 100
  /\ result.monthly_breakdown[1].net_profit = 895 * Cm3PerM3

RangeDone == range.pc = "done"

\* C18: a range generator called with step > 0 and min <= max returns a
\* list that starts at min, whose consecutive elements differ by step (so it
\* ascends strictly), whose last element is <= max and within one step of it;
\* called with min > max it returns the empty list; and 1, 10, 3 gives
\* [1, 4, 7, 10].
C18_RangeIsArithmeticUpToMax ==
  RangeDone =>
    LET out == range.out
    IN  /\ (range.step > 0 /\ range.min <= range.max) =>
             /\ Len(out) >= 1
             /\ out[1] = range.min
             /\ \A i \in 1..(Len(out) - 1) : out[i + 1] - out[i] = range.step
             /\ out[Len(out)] <= range.max
             /\ out[Len(out)] + range.step > range.max
        /\ range.min > range.max => out = <<>>
        /\ (range.min = 1000 /\ range.max = 10000 /\ range.step = 3000) =>
             out = <<1000, 4000, 7000, 10000>>

\* C19: a range generator called with a step <= 0 produces no element: it
\* reports the step instead of looping on it.
C19_NonPositiveStepProducesNothing ==
  (range.pc /= "idle" /\ range.step <= 0) => range.out = <<>>

\* The rejections the filter is said to make, on the inputs of the call.
ClaimedRejections ==
  LET price == flt.price
      size == flt.size_cm3
      \* w = weight_g / 1000 kg: w > n kg iff weight_g > 1000 n
      grams == flt.weight_g
      \* density = w / (size / 1000), 0 when size is 0, in hundredths: num / den
      densityNum == IF size = 0 THEN 0 ELSE grams * DensityDen
      densityDen == IF size = 0 THEN 1 ELSE size
      \* value_per_kg = price / w, 0 when w is 0: num / den
      valueNum == IF grams = 0 THEN 0 ELSE price * 1000
      valueDen == IF grams = 0 THEN 1 ELSE grams
  IN  { r \in 1..7 :
          CASE r = 1 -> \/ densityNum < flt.density_min * densityDen
                        \/ densityNum > flt.density_max * densityDen
            [] r = 2 -> price < 10 /\ grams > 5000
            [] r = 3 -> price < 5 /\ size > 10000
            [] r = 4 -> 100 <= price /\ price <= 1000 /\ valueNum < 10 * valueDen
            [] r = 5 -> price >= 1000 /\ (valueNum < 50 * valueDen \/ size > 30000)
            [] r = 6 -> size > 20000 /\ grams < 500
            [] r = 7 -> grams > 10000 /\ size < 1000 /\ price < 100 }

\* C20: is_realistic_combination returns true iff none of the seven
\* rejections holds: density outside [dmin, dmax]; price < 10 and over 5 kg;
\* price < 5 and over 10,000 cm3; price in [100, 1000] and under 10 per kg;
\* price >= 1000 and under 50 per kg or over 30,000 cm3; over 20,000 cm3 and
\* under 0.5 kg; over 10 kg, under 1,000 cm3 and price < 100.
C20_RealisticIffNoRejection ==
  flt.pc = "done" => (flt.realistic <=> ClaimedRejections = {})

\* The filter has rejected a combination for the luxury rule alone.
C20_Witness ==
  /\ flt.pc = "done"
  /\ ~flt.realistic
  /\ ClaimedRejections = {5}
  /\ flt.size_cm3 > 30000

\* The window of the later call lies within the window of the earlier one.
WindowNarrowed ==
  /\ flt.density_min >= flt.before.density_min
  /\ flt.density_max <= flt.before.density_max

\* C21: filter monotonicity: a combination the filter rejects under a density
\* window [dmin, dmax] is rejected under every window within it (dmin' >= dmin
\* and dmax' <= dmax).
C21_RejectionSurvivesNarrowing ==
  (flt.pc = "again" /\ WindowNarrowed /\ ~flt.before.realistic) => ~flt.realistic

\* A combination rejected for its density alone under a window was called
\* again under a strictly narrower one.
C21_Witness ==
  /\ flt.pc = "again"
  /\ WindowNarrowed
  /\ flt.density_min > flt.before.density_min
  /\ flt.density_max < flt.before.density_max
  /\ ~flt.before.realistic
  /\ IsRealisticCombination(flt.price, flt.weight_g, flt.size_cm3, 0, 20000)
  /\ ~flt.realistic

SetMin(S) == CHOOSE v \in S : \A w \in S : v <= w

\* The positions of the markup tiers whose bracket [min_cost, max_cost) holds
\* the wholesale price of the call.
MarkupBrackets ==
  {i \in 1..Len(tier.app_config.markup_tiers) :
     /\ tier.app_config.markup_tiers[i].min_cost <= tier.wholesale
     /\ tier.wholesale < tier.app_config.markup_tiers[i].max_cost}

RetailPriceReturned ==
  tier.pc = "done" /\ tier.fn = "estimate_retail_price" /\ tier.raised = "none"

\* C22: estimate_retail_price returns wholesale x markup_multiplier of the
\* first tier in list order with min_cost <= wholesale < max_cost (a price on
\* a boundary belongs to the bracket that starts there), and wholesale x the
\* last tier's markup_multiplier when no tier matches.
C22_FirstMatchingMarkupTier ==
  RetailPriceReturned =>
    LET tiers == tier.app_config.markup_tiers
    IN  tier.value = tier.wholesale *
          (IF MarkupBrackets /= {} THEN tiers[SetMin(MarkupBrackets)].markup_multiplier
           ELSE tiers[Len(tiers)].markup_multiplier)

\* A price on the boundary of two brackets got the multiplier of the higher
\* one, which is not the multiplier of the lower one.
C22_Witness ==
  /\ RetailPriceReturned
  /\ tier.wholesale = 50
  /\ tier.app_config = FromCfgFile(DefaultCfg)
  /\ tier.value = 50 * 10
  /\ tier.value /= 50 * tier.app_config.markup_tiers[1].markup_multiplier

\* The positions of the demand tiers whose bracket [min_price, max_price)
\* holds the wholesale price of the call.
DemandBrackets ==
  {i \in 1..Len(tier.app_config.demand_tiers) :
     /\ tier.app_config.demand_tiers[i].min_price <= tier.wholesale
     /\ tier.wholesale < tier.app_config.demand_tiers[i].max_price}

\* The tables of the call are tables AppConfig.from_cfg_file builds.
BuiltFromCfgFile ==
  tier.app_config \in {FromCfgFile(DefaultCfg), FromCfgFile(MisorderedCfg),
                       FromCfgFile(CheapGoodsCfg)}

\* C23: tier lookup totality: with the tables AppConfig.from_cfg_file builds
\* and a price >= 0, at most one markup bracket and at most one demand
\* bracket holds the price, a price in no bracket takes the fallback (last
\* markup multiplier; demand 5), and the lookup returns a value.
C23_TierLookupTotality ==
  (tier.pc = "done" /\ BuiltFromCfgFile /\ tier.wholesale >= 0) =>
    /\ tier.raised = "none"
    /\ Cardinality(MarkupBrackets) <= 1
    /\ Cardinality(DemandBrackets) <= 1
    /\ (tier.fn = "estimate_retail_price" /\ MarkupBrackets = {}) =>
         tier.value = tier.wholesale *
           tier.app_config.markup_tiers[Len(tier.app_config.markup_tiers)].markup_multiplier
    /\ (tier.fn = "estimate_base_demand" /\ DemandBrackets = {}) =>
         tier.value = FallbackDemand * DemandDen

BaseDemandReturned == tier.pc = "done" /\ tier.fn = "estimate_base_demand"

\* Ten times the demand the rule gives for the call, in two-hundredths:
\* base_demand_monthly x demand_multiplier, halved over 20,000 cm3, times 0.7
\* over 20 kg, then held within [1, max_demand_monthly].
ClaimedDemandTimesTen ==
  LET t == tier.app_config.demand_tiers[SetMin(DemandBrackets)]
      d == t.base_demand_monthly * t.demand_multiplier
             * (IF tier.size_cm3 > 20000 THEN 10 ELSE 20)
             * (IF tier.weight_g > 20000 THEN 7 ELSE 10)
      one == 10 * DemandDen
      cap == 10 * DemandDen * t.max_demand_monthly
      floored == IF d < one THEN one ELSE d
  IN  IF floored > cap THEN cap ELSE floored

\* C24: estimate_base_demand takes the first demand tier with
\* min_price <= wholesale < max_price and returns min(max(1, d),
\* max_demand_monthly) for d = base_demand_monthly x demand_multiplier, x 0.5
\* if size_cm3 > 20,000, x 0.7 if weight_g / 1000 > 20; with no tier, 5.
C24_BaseDemandOfTier ==
  BaseDemandReturned =>
    IF DemandBrackets = {} THEN tier.value = FallbackDemand * DemandDen
    ELSE 10 * tier.value = ClaimedDemandTimesTen

\* A bulky and heavy product of the cheapest default tier: 320 x 0.5 x 0.7 =
\* 112 a month, neither the floor nor the cap.
C24_Witness ==
  /\ BaseDemandReturned
  /\ tier.app_config = FromCfgFile(DefaultCfg)
  /\ tier.wholesale < 50
  /\ tier.size_cm3 > 20000
  /\ tier.weight_g > 20000
  /\ tier.value = 112 * DemandDen

\* C25: demand cap invariant: every candidate generate_all_product_candidates
\* returns whose wholesale price lies in a demand tier has a base_demand of
\* at least 1 and at most that tier's max_demand_monthly.
C25_DemandWithinTierCap ==
  gen.pc = "done" =>
    \A n \in 1..Len(gen.candidates) :
      \A i \in 1..Len(gen.app_config.demand_tiers) :
        LET c == gen.candidates[n]
            t == gen.app_config.demand_tiers[i]
        IN  (t.min_price <= c.wholesale_price /\ c.wholesale_price < t.max_price) =>
              /\ DemandDen <= c.base_demand
              /\ c.base_demand <= t.max_demand_monthly * DemandDen

\* The combination of a candidate.
CombinationOf(c) ==
  <<c.wholesale_price, c.weight_g, c.size_cm3, c.shipping_cost_multiplier>>

\* The n-th combination of price x weight x size x shipping, price outermost
\* and shipping innermost.
CartesianAt(n) ==
  LET f == Len(gen.shipping_costs)
      z == Len(gen.sizes)
      w == Len(gen.weights)
      k == n - 1
  IN  << gen.prices[(k \div (f * z * w)) + 1],
         gen.weights[((k \div (f * z)) % w) + 1],
         gen.sizes[((k \div f) % z) + 1],
         gen.shipping_costs[(k % f) + 1] >>

\* The combinations the filter accepts, as positions of the enumeration.
RealisticPositions ==
  {n \in 1..Len(gen.seen) :
     IsRealisticCombination(gen.seen[n][1], gen.seen[n][2], gen.seen[n][3],
                            gen.params.density_min, gen.params.density_max)}

\* The position in the enumeration of a candidate that was kept.
EnumerationPosition(c) == CHOOSE n \in 1..Len(gen.seen) : gen.seen[n] = CombinationOf(c)

\* c goes before d in the ranking: higher profit potential, or the same and
\* earlier in the enumeration.
RankedBefore(c, d) ==
  \/ ProfitPotential(c) > ProfitPotential(d)
  \/ /\ ProfitPotential(c) = ProfitPotential(d)
     /\ EnumerationPosition(c) < EnumerationPosition(d)

\* C26: generate_all_product_candidates enumerates price x weight x size x
\* shipping (price outermost, shipping innermost) and keeps exactly the
\* realistic combinations; with a cap N it returns at most N candidates, the
\* N of highest (retail_price - wholesale_price) x base_demand, in descending
\* order of that value, equal values in enumeration order.
C26_EnumerateFilterAndCap ==
  gen.pc = "done" =>
    LET kept == {gen.kept[k] : k \in 1..Len(gen.kept)}
        returned == {gen.candidates[k] : k \in 1..Len(gen.candidates)}
    IN  /\ Len(gen.seen) = Len(gen.prices) * Len(gen.weights) * Len(gen.sizes)
                             * Len(gen.shipping_costs)
        /\ \A n \in 1..Len(gen.seen) : gen.seen[n] = CartesianAt(n)
        /\ {CombinationOf(c) : c \in kept} = {gen.seen[n] : n \in RealisticPositions}
        /\ Len(gen.kept) = Cardinality(RealisticPositions)
        /\ \A i, j \in 1..Len(gen.kept) :
             i < j => EnumerationPosition(gen.kept[i]) < EnumerationPosition(gen.kept[j])
        /\ returned \subseteq kept
        /\ IF gen.params.max_candidates = <<>>
           THEN gen.candidates = gen.kept
           ELSE LET N == gen.params.max_candidates[1]
                IN  /\ Len(gen.candidates) <= N
                    /\ Len(gen.candidates) = Min2(N, Len(gen.kept))
                    /\ \A i, j \in 1..Len(gen.candidates) :
                         i < j => RankedBefore(gen.candidates[i], gen.candidates[j])
                    /\ \A c \in returned : \A d \in kept \ returned : RankedBefore(c, d)

\* C27: forecast_month(month) = base_demand x seasonal(month) x
\* trend_factor^(month - 1), with seasonal(month) the mapped factor, or 1.0
\* for a month the mapping does not have (month 13 does not read month 1);
\* demand_buffer is no part of it and only scales the variable upper bound.
C27_ForecastMonth ==
  fc.pc = "done" =>
    LET df == fc.df
        seasonal == IF fc.month \in DOMAIN df.seasonal_factors
                    THEN df.seasonal_factors[fc.month] ELSE SeasonalDen
        num == df.base_demand * seasonal * Pow(df.trend_factor[1], fc.month - 1)
        den == SeasonalDen * Pow(df.trend_factor[2], fc.month - 1)
    IN  /\ fc.forecast = <<num, den>>
        /\ fc.max_qty = (num * df.demand_buffer[1]) \div (den * df.demand_buffer[2])

\* Month 13 under the default factors: the forecast uses 1.0 where month 1
\* has 0.8, and the buffer of 1.5 raises the upper bound over the forecast.
C27_Witness ==
  /\ fc.pc = "done"
  /\ fc.month = 13
  /\ fc.df.seasonal_factors = DefaultSeasonalFactors
  /\ fc.df.base_demand = 10
  /\ fc.df.trend_factor = <<1, 1>>
  /\ fc.df.demand_buffer = <<3, 2>>
  /\ fc.forecast = <<10 * SeasonalDen, SeasonalDen>>
  /\ fc.max_qty = 15

\* C28: the tier demand cap survives optimization: in an OPTIMAL or FEASIBLE
\* result for products converted from generated candidates, the quantity
\* ordered of a product in one month is at most the max_demand_monthly of
\* the demand tier of its wholesale price.
C28_OrdersWithinTierCap ==
  Succeeded =>
    \A month \in DOMAIN result.purchase_orders :
      \A id \in DOMAIN result.purchase_orders[month] :
        \A i \in 1..Len(BatchAppConfig.demand_tiers) :
          LET order == result.purchase_orders[month][id]
              t == BatchAppConfig.demand_tiers[i]
          IN  (t.min_price <= order.unit_wholesale /\ order.unit_wholesale < t.max_price)
                => order.quantity <= t.max_demand_monthly

\* The position in product_totals of the product of a selected entry.
TotalsPosition(entry) ==
  CHOOSE k \in 1..Len(sel.results.product_totals) :
    sel.results.product_totals[k].id = entry.id

\* C29: extract_selected_products returns [] unless the status is OPTIMAL or
\* FEASIBLE; otherwise one entry per product of product_totals, by
\* total_margin descending (equal margins in product_totals order), cut to
\* the first top_n entries when top_n is given, each entry with the product's
\* id, name, total quantity, cost, revenue and margin unchanged.
C29_SelectedByMarginTopN ==
  sel.pc = "done" =>
    LET totals == sel.results.product_totals
        out == sel.selected
        ranked(a, b) ==
          \/ a.total_margin > b.total_margin
          \/ /\ a.total_margin = b.total_margin
             /\ TotalsPosition(a) < TotalsPosition(b)
        listed == {out[i].id : i \in 1..Len(out)}
    IN  IF sel.results.status \notin {"OPTIMAL", "FEASIBLE"} THEN out = <<>>
        ELSE /\ \A i \in 1..Len(out) :
                  \E k \in 1..Len(totals) :
                    /\ out[i].id = totals[k].id
                    /\ out[i].name = totals[k].name
                    /\ out[i].total_quantity_ordered = totals[k].total_quantity
                    /\ out[i].total_cost = totals[k].total_cost
                    /\ out[i].total_revenue = totals[k].total_revenue
                    /\ out[i].total_margin = totals[k].total_margin
             /\ \A i, j \in 1..Len(out) : i < j => ranked(out[i], out[j])
             /\ \A i \in 1..Len(out) : \A k \in 1..Len(totals) :
                  totals[k].id \notin listed => ranked(out[i], SelectedEntry(totals[k]))
             /\ Len(out) = IF sel.top_n = <<>> THEN Len(totals)
                           ELSE Min2(sel.top_n[1], Len(totals))

\* C30: in an OPTIMAL or FEASIBLE result read back from exact integer
\* variable values, the net_profit entries of monthly_breakdown add up to
\* objective_value: the breakdown recomputed from the orders and the
\* solver's objective agree.
C30_BreakdownAddsUpToObjective ==
  (Succeeded /\ exact) =>
    SumFunction([m \in DOMAIN result.monthly_breakdown |->
                   result.monthly_breakdown[m].net_profit]) = result.objective_value

\* A plan across a border that orders in two months, read back exactly: the
\* customs duty is in both the objective and the breakdown.
C30_Witness ==
  /\ Succeeded
  /\ exact
  /\ config.shipping.crosses_border
  /\ config.planning_months = 2
  /\ \A m \in 1..2 : result.monthly_breakdown[m].items_ordered > 0
  /\ result.monthly_breakdown[1].customs_duty > 0
  /\ result.objective_value > 0
  /\ result.objective_value =
       result.monthly_breakdown[1].net_profit + result.monthly_breakdown[2].net_profit
====
